---- MODULE Spec2Model ----
(***************************************************************************)
(* The layer binding generator of pyo3-opendal (codegen/layer.rs):         *)
(* parse_layer_def extracts the builder methods of `<Pascal>Layer` from a  *)
(* parsed source file, generate sorts them, maps their types and renders   *)
(* the wrapper's constructor.  Text is a sequence of one-character         *)
(* strings, so that prefixes, trimming and byte order are computed.        *)
(***************************************************************************)
EXTENDS Integers, Sequences, FiniteSets, TLC

(* ------------------------------ text ---------------------------------- *)

\* The printable ASCII characters in byte order, from 0x20 to 0x7e. The grave
\* accent (0x60), which a string of this language cannot hold, is "grave".
Printable ==
  <<" ", "!", "\"", "#", "$", "%", "&", "'", "(", ")", "*", "+", ",", "-", ".", "/",
      "0", "1", "2", "3", "4", "5", "6", "7", "8", "9", ":", ";", "<", "=", ">", "?",
      "@", "A", "B", "C", "D", "E", "F", "G", "H", "I", "J", "K", "L", "M", "N", "O",
      "P", "Q", "R", "S", "T", "U", "V", "W", "X", "Y", "Z", "[", "\\", "]", "^", "_",
      "grave", "a", "b", "c", "d", "e", "f", "g", "h", "i", "j", "k", "l", "m", "n",
      "o", "p", "q", "r", "s", "t", "u", "v", "w", "x", "y", "z", "{", "|", "}", "~">>

\* The byte of a character: String::cmp compares byte by byte.
ByteOf ==
  [c \in {Printable[i] : i \in DOMAIN Printable} \cup {"\t", "\n"} |->
     IF c = "\t" THEN 9
     ELSE IF c = "\n" THEN 10
     ELSE 31 + (CHOOSE i \in DOMAIN Printable : Printable[i] = c)]

SetMin(S) == CHOOSE x \in S : \A y \in S : x <= y

SetMax(S) == CHOOSE x \in S : \A y \in S : y <= x

\* Ord::cmp on two strings: -1 (Less), 0 (Equal), 1 (Greater).
StrCmp(a, b) ==
  LET n == IF Len(a) < Len(b) THEN Len(a) ELSE Len(b)
      d == {i \in 1..n : a[i] # b[i]}
  IN IF d = {}
       THEN (IF Len(a) < Len(b) THEN -1 ELSE IF Len(a) > Len(b) THEN 1 ELSE 0)
       ELSE (IF ByteOf[a[SetMin(d)]] < ByteOf[b[SetMin(d)]] THEN -1 ELSE 1)

\* A prefix test that accepts every name.
starts_with_anything(s, p) == TRUE

\* str::starts_with
starts_with(s, p) == Len(s) >= Len(p) /\ SubSeq(s, 1, Len(p)) = p

\* str::strip_prefix(..).unwrap(), called only where starts_with holds
strip_prefix(s, p) == SubSeq(s, Len(p) + 1, Len(s))

\* A strip_prefix that finds the prefix nowhere.
strip_prefix_never(s, p) == FALSE

\* str::strip_prefix gives Some: the string begins with the prefix.
strip_prefix_is_some(s, p) ==
  /\ Len(p) <= Len(s)
  /\ \A i \in 1..Len(p) : s[i] = p[i]

is_whitespace(c) == c \in {" ", "\t", "\n"}

\* str::trim
trim(s) ==
  LET keep == {i \in 1..Len(s) : ~is_whitespace(s[i])}
  IN IF keep = {} THEN <<>> ELSE SubSeq(s, SetMin(keep), SetMax(keep))

\* [String]::join
RECURSIVE join(_, _)
join(parts, sep) ==
  IF parts = <<>> THEN <<>>
  ELSE IF Len(parts) = 1 THEN parts[1]
  ELSE parts[1] \o sep \o join(Tail(parts), sep)

is_ascii_lowercase(c) == ByteOf[c] >= ByteOf["a"] /\ ByteOf[c] <= ByteOf["z"]

is_ascii_uppercase(c) == ByteOf[c] >= ByteOf["A"] /\ ByteOf[c] <= ByteOf["Z"]

is_ascii_digit(c) == ByteOf[c] >= ByteOf["0"] /\ ByteOf[c] <= ByteOf["9"]

\* char::to_ascii_uppercase
to_ascii_uppercase(c) ==
  IF is_ascii_lowercase(c)
    THEN Printable[ByteOf[c] - (ByteOf["a"] - ByteOf["A"]) - 31]
    ELSE c

\* layer_to_pascal: drop `_` and `-`, capitalise the character after each.
RECURSIVE pascal_from(_, _)
pascal_from(s, capitalize) ==
  IF s = <<>> THEN <<>>
  ELSE IF Head(s) = "_" \/ Head(s) = "-" THEN pascal_from(Tail(s), TRUE)
  ELSE IF capitalize THEN <<to_ascii_uppercase(Head(s))>> \o pascal_from(Tail(s), FALSE)
  ELSE <<Head(s)>> \o pascal_from(Tail(s), FALSE)

layer_to_pascal(layer) == pascal_from(layer, TRUE)

\* What format_ident! accepts: a non-empty identifier; anything else panics.
is_ident(s) ==
  /\ s # <<>>
  /\ s[1] = "_" \/ is_ascii_lowercase(s[1]) \/ is_ascii_uppercase(s[1])
  /\ \A i \in 2..Len(s) :
       s[i] = "_" \/ is_ascii_lowercase(s[i]) \/ is_ascii_uppercase(s[i])
         \/ is_ascii_digit(s[i])

(* --------------------------- the source file --------------------------- *)

\* The component generate is called for, and the struct it looks for.
layer_name == <<"r", "e", "t", "r", "y">>

struct_name == layer_to_pascal(layer_name) \o <<"L", "a", "y", "e", "r">>

\* A method of an impl block, as syn parses it (ImplItemFn with the self
\* type of its block): visibility, name, receiver, return type, the typed
\* parameters and the values of its #[doc] attributes.  The receiver is
\* "none", "self", "mut self", "&self" or "&mut self".
Fn(self_ty, vis, name, receiver, output, inputs, docs) ==
  [self_ty |-> self_ty, vis |-> vis, name |-> name, receiver |-> receiver,
   output |-> output, inputs |-> inputs, docs |-> docs]

\* ReturnType::Default, or ReturnType::Type with a path, reference or tuple.
NoReturn == [kind |-> "default", ident |-> <<>>]

RetPath(ident) == [kind |-> "path", ident |-> ident]

RetReference(ident) == [kind |-> "reference", ident |-> ident]

RetTuple(ident) == [kind |-> "tuple", ident |-> ident]

\* FnArg::Typed: a pattern (an identifier or not) and a type (a path, of
\* which the last segment is kept, or not).
Arg(pat_kind, pat_ident, ty_kind, ty_ident) ==
  [pat |-> [kind |-> pat_kind, ident |-> pat_ident],
   ty |-> [kind |-> ty_kind, ident |-> ty_ident]]

IdentArg(name, ty) == Arg("ident", name, "path", ty)

SelfTy == <<"S", "e", "l", "f">>

(* ---------------------------- parse_layer_def -------------------------- *)

\* MethodDef
MethodDef(name, arg_name, arg_type, docs, is_toggle) ==
  [name |-> name, arg_name |-> arg_name, arg_type |-> arg_type,
   docs |-> docs, is_toggle |-> is_toggle]

\* A receiver test that lets static functions through.
has_receiver_or_static(m) == TRUE

\* sig.inputs.iter().any(|arg| matches!(arg, FnArg::Receiver(_)))
has_receiver(m) == m.receiver # "none"

\* The return type check: `continue` without a return type, and for a path
\* whose last segment is neither `Self` nor the struct; a type that is not a
\* path falls through the `if let`.
return_type_rejected(m) ==
  \/ m.output.kind = "default"
  \/ /\ m.output.kind = "path"
     /\ m.output.ident # SelfTy
     /\ m.output.ident # struct_name

\* The name of the one argument: the identifier of the pattern, else "arg".
arg_name_of(arg) == IF arg.pat.kind = "ident" THEN arg.pat.ident ELSE <<"a", "r", "g">>

\* Its type: the last segment of a path type, else "unknown".
arg_type_of(arg) == IF arg.ty.kind = "path" THEN arg.ty.ident ELSE <<"u", "n", "k", "n",
    "o", "w", "n">>

\* The #[doc] values of the method, each trimmed.
extract_docs(m) == [i \in DOMAIN m.docs |-> trim(m.docs[i])]

\* An extraction that takes the first parameter of a method with several.
parse_method_first_arg(m) ==
  IF m.self_ty # struct_name THEN <<>>
  ELSE IF m.vis # "pub" THEN <<>>
  ELSE IF ~has_receiver(m) THEN <<>>
  ELSE IF return_type_rejected(m) THEN <<>>
  ELSE IF Len(m.inputs) >= 1
    THEN <<MethodDef(m.name, arg_name_of(m.inputs[1]), arg_type_of(m.inputs[1]),
                     extract_docs(m), FALSE)>>
  ELSE IF starts_with(m.name, <<"w", "i", "t", "h", "_">>)
    THEN <<MethodDef(m.name, strip_prefix(m.name, <<"w", "i", "t", "h", "_">>), <<"b",
        "o", "o", "l">>,
                     extract_docs(m), TRUE)>>
  ELSE <<>>

\* The descriptors one impl item contributes: none or one.
parse_method(m) ==
  IF m.self_ty # struct_name THEN <<>>
  ELSE IF m.vis # "pub" THEN <<>>
  ELSE IF ~has_receiver(m) THEN <<>>
  ELSE IF return_type_rejected(m) THEN <<>>
  ELSE IF Len(m.inputs) = 1
    THEN <<MethodDef(m.name, arg_name_of(m.inputs[1]), arg_type_of(m.inputs[1]),
                     extract_docs(m), FALSE)>>
  ELSE IF Len(m.inputs) = 0 /\ starts_with(m.name, <<"w", "i", "t", "h", "_">>)
    THEN <<MethodDef(m.name, strip_prefix(m.name, <<"w", "i", "t", "h", "_">>), <<"b",
        "o", "o", "l">>,
                     extract_docs(m), TRUE)>>
  ELSE <<>>

\* The item makes parse_layer_def panic: it is taken as a toggle, and
\* strip_prefix("with_") gives the None that unwrap() panics on.
parse_method_panics(m) ==
  /\ m.self_ty = struct_name
  /\ m.vis = "pub"
  /\ has_receiver(m)
  /\ ~return_type_rejected(m)
  /\ Len(m.inputs) = 0
  /\ starts_with(m.name, <<"w", "i", "t", "h", "_">>)
  /\ ~strip_prefix_is_some(m.name, <<"w", "i", "t", "h", "_">>)

parse_layer_def_panics(items) ==
  \E i \in DOMAIN items : parse_method_panics(items[i])

\* parse_layer_def: the descriptors of the items, in declaration order.
RECURSIVE parse_layer_def(_)
parse_layer_def(items) ==
  IF items = <<>> THEN <<>>
  ELSE parse_method(Head(items)) \o parse_layer_def(Tail(items))

(* ------------------------------ generate ------------------------------- *)

\* methods.sort_by(|a, b| a.arg_name.cmp(&b.arg_name)): a stable sort, so
\* descriptors with equal arg_name keep their relative order.
insert_sorted(sorted, x) ==
  LET k == Cardinality({i \in DOMAIN sorted :
                          StrCmp(sorted[i].arg_name, x.arg_name) <= 0})
  IN SubSeq(sorted, 1, k) \o <<x>> \o SubSeq(sorted, k + 1, Len(sorted))

\* No sort: the methods stay in declaration order.
unsorted(ms) == ms

RECURSIVE sort_by_arg_name(_)
sort_by_arg_name(ms) ==
  IF ms = <<>> THEN <<>>
  ELSE insert_sorted(sort_by_arg_name(SubSeq(ms, 1, Len(ms) - 1)), ms[Len(ms)])

IntTypes ==
  {<<"u", "s", "i", "z", "e">>, <<"u", "6", "4">>, <<"i", "6", "4">>, <<"u", "3", "2">>,
      <<"u", "1", "6">>, <<"i", "s", "i", "z", "e">>, <<"i", "3", "2">>, <<"i", "1",
      "6">>, <<"i", "8">>, <<"u", "8">>}

FloatTypes == {<<"f", "3", "2">>, <<"f", "6", "4">>}

\* The type match of generate: (py_type, default_val, is_bool, py_type_doc),
\* or the `_` arm that skips the method.
TypeInfo(supported, py_type, default_val, is_bool, py_type_doc) ==
  [supported |-> supported, py_type |-> py_type, default_val |-> default_val,
   is_bool |-> is_bool, py_type_doc |-> py_type_doc]

\* A type match without the `_` arm: every type is handed on as it is.
type_mapping_any(arg_type_str) ==
  TypeInfo(TRUE, arg_type_str, <<"N", "o", "n", "e">>, arg_type_str = <<"b", "o", "o",
      "l">>, arg_type_str)

type_mapping(arg_type_str) ==
  IF arg_type_str = <<"b", "o", "o", "l">>
    THEN TypeInfo(TRUE, <<"b", "o", "o", "l">>, <<"f", "a", "l", "s", "e">>, TRUE,
        <<"b", "o", "o", "l">>)
  ELSE IF arg_type_str = <<"S", "t", "r", "i", "n", "g">>
    THEN TypeInfo(TRUE, <<"S", "t", "r", "i", "n", "g">>, <<"N", "o", "n", "e">>, FALSE,
        <<"s", "t", "r">>)
  ELSE IF arg_type_str \in IntTypes
    THEN TypeInfo(TRUE, arg_type_str, <<"N", "o", "n", "e">>, FALSE, <<"i", "n", "t">>)
  ELSE IF arg_type_str \in FloatTypes
    THEN TypeInfo(TRUE, arg_type_str, <<"N", "o", "n", "e">>, FALSE, <<"f", "l", "o",
        "a", "t">>)
  ELSE IF arg_type_str = <<"D", "u", "r", "a", "t", "i", "o", "n">>
    THEN TypeInfo(TRUE, <<"s", "t", "d", ":", ":", "t", "i", "m", "e", ":", ":", "D",
        "u", "r", "a", "t", "i", "o", "n">>, <<"N", "o", "n", "e">>, FALSE, <<"f", "l",
        "o", "a", "t">>)
  ELSE TypeInfo(FALSE, <<>>, <<>>, FALSE, <<>>)

\* The docstring text of one method.
non_blank(lines) == SelectSeq([i \in DOMAIN lines |-> trim(lines[i])],
                              LAMBDA s : s # <<>>)

doc_desc(method) ==
  IF method.docs = <<>>
    THEN <<"S", "e", "e", " ", "grave">> \o method.name \o <<"grave", ".">>
    ELSE join(non_blank(method.docs), <<"\n", " ", " ", " ", " ">>)

\* format!("{} : Optional[{}]\n    {}", arg_name, py_type_doc, doc_desc)
doc_param(method, info) ==
  method.arg_name \o <<" ", ":", " ", "O", "p", "t", "i", "o", "n", "a", "l",
      "[">> \o info.py_type_doc \o <<"]", "\n", " ", " ", " ", " ">>
    \o doc_desc(method)

\* The three shapes of a parameter: the declaration `name: type`, the
\* signature entry `name = default` and the conditional builder call.
new_arg(method, info) ==
  [name |-> method.arg_name,
   ty |-> IF method.is_toggle \/ info.is_bool THEN <<"b", "o", "o", "l">>
          ELSE <<"O", "p", "t", "i", "o", "n", "<">> \o info.py_type \o <<">">>]

signature_arg(method, info) ==
  [name |-> method.arg_name, default |-> info.default_val]

new_assignment(method, info) ==
  IF method.is_toggle
    THEN [cond |-> "if", name |-> method.arg_name, method |-> method.name,
          passes |-> <<>>]
  ELSE IF info.is_bool
    THEN [cond |-> "if", name |-> method.arg_name, method |-> method.name,
          passes |-> method.arg_name]
  ELSE [cond |-> "if let Some(v)", name |-> method.arg_name,
        method |-> method.name, passes |-> <<"v">>]

\* A docstring that has its Parameters section whatever the parameters.
doc_string_with_parameters(params) ==
  <<"C", "r", "e", "a", "t", "e", " ", "a", " ", "n", "e", "w",
      " ">> \o struct_name \o <<".", "\n", "\n", "P", "a", "r", "a", "m", "e", "t", "e",
      "r", "s", "\n", "-", "-", "-", "-", "-", "-", "-", "-", "-", "-", "\n">>
    \o join(params, <<"\n">>) \o <<"\n", "\n", "R", "e", "t", "u", "r", "n", "s", "\n",
        "-", "-", "-", "-", "-", "-", "-", "\n">> \o struct_name

\* The docstring of the constructor.
doc_string_of(params) ==
  LET lit == struct_name
  IN IF params = <<>>
       THEN <<"C", "r", "e", "a", "t", "e", " ", "a", " ", "n", "e", "w",
           " ">> \o lit \o <<".", "\n", "\n", "R", "e", "t", "u", "r", "n", "s", "\n",
           "-", "-", "-", "-", "-", "-", "-", "\n">> \o lit
       ELSE <<"C", "r", "e", "a", "t", "e", " ", "a", " ", "n", "e", "w",
           " ">> \o lit \o <<".", "\n", "\n", "P", "a", "r", "a", "m", "e", "t", "e",
           "r", "s", "\n", "-", "-", "-", "-", "-", "-", "-", "-", "-", "-", "\n">>
              \o join(params, <<"\n">>) \o <<"\n", "\n", "R", "e", "t", "u", "r", "n",
                  "s", "\n", "-", "-", "-", "-", "-", "-", "-", "\n">> \o lit

\* A constructor body that starts from `<struct>::new()`.
base_value_new == [ty |-> struct_name, call |-> "new", args |-> <<>>]

\* The value the constructor body starts from: `<struct>::default()`.
base_value == [ty |-> struct_name, call |-> "default", args |-> <<>>]

(* ------------------------- the sources explored ------------------------ *)

Builder(name, receiver, output, inputs, docs) ==
  Fn(struct_name, "pub", name, receiver, output, inputs, docs)

\* Methods the source file of a layer may declare: builders of every shape the
\* extraction distinguishes.
Pool ==
  { Builder(<<"w", "i", "t", "h", "_", "j", "i", "t", "t", "e", "r">>, "self",
      RetPath(SelfTy), <<>>,
            <<<<" ", "E", "n", "a", "b", "l", "e", " ", "j", "i", "t", "t", "e", "r",
                ".">>, <<>>>>),
    Builder(<<"w", "i", "t", "h", "_", "m", "a", "x", "_", "t", "i", "m", "e", "s">>,
        "mut self", RetPath(SelfTy),
            <<IdentArg(<<"m", "a", "x", "_", "t", "i", "m", "e", "s">>, <<"u", "s", "i",
                "z", "e">>)>>, <<>>),
    Builder(<<"s", "e", "t", "_", "j", "i", "t", "t", "e", "r">>, "mut self",
        RetPath(struct_name),
            <<IdentArg(<<"j", "i", "t", "t", "e", "r">>, <<"b", "o", "o", "l">>)>>,
                <<<<" ">>>>),
    Builder(<<"w", "i", "t", "h", "_", "m", "i", "n", "_", "d", "e", "l", "a", "y">>,
        "self", RetPath(SelfTy),
            <<IdentArg(<<"m", "i", "n", "_", "d", "e", "l", "a", "y">>, <<"D", "u", "r",
                "a", "t", "i", "o", "n">>)>>,
            <<<<" ", "M", "i", "n", "i", "m", "u", "m", " ", "d", "e", "l", "a", "y",
                ".">>, <<" ", "I", "n", " ", "s", "e", "c", "o", "n", "d", "s",
                ".">>>>),
    Builder(<<"w", "i", "t", "h", "_", "n", "o", "t", "i", "f", "y">>, "self",
        RetPath(SelfTy),
            <<IdentArg(<<"n", "o", "t", "i", "f", "y">>, <<"A", "r", "c">>)>>, <<<<" ",
                "S", "e", "t", " ", "t", "h", "e", " ", "i", "n", "t", "e", "r", "c",
                "e", "p", "t", "o", "r", ".">>>>),
    Builder(<<"w", "i", "t", "h", "_", "r", "a", "n", "g", "e">>, "self",
        RetPath(SelfTy),
            <<Arg("tuple", <<>>, "tuple", <<>>)>>, <<>>),
    Builder(<<"w", "i", "t", "h", "_", "b", "a", "c", "k", "o", "f", "f">>, "self",
        RetPath(SelfTy),
            <<IdentArg(<<"m", "i", "n">>, <<"D", "u", "r", "a", "t", "i", "o", "n">>),
                IdentArg(<<"m", "a", "x">>, <<"D", "u", "r", "a", "t", "i", "o",
                "n">>)>>,
            <<>>),
    Builder(<<"w", "i", "t", "h", "_", "d", "e", "l", "a", "y", "s">>, "mut self",
        RetPath(struct_name),
            <<IdentArg(<<"m", "i", "n">>, <<"D", "u", "r", "a", "t", "i", "o", "n">>),
                IdentArg(<<"m", "a", "x">>, <<"D", "u", "r", "a", "t", "i", "o", "n">>),
              IdentArg(<<"f", "a", "c", "t", "o", "r">>, <<"f", "3", "2">>)>>, <<>>),
    Builder(<<"w", "i", "t", "h", "_">>, "self", RetPath(SelfTy), <<>>, <<>>),
    Builder(<<"b", "u", "i", "l", "d">>, "self", RetPath(SelfTy), <<>>, <<>>),
    Builder(<<"w", "i", "t", "h", "_", "d", "e", "f", "a", "u", "l", "t", "s">>, "none",
        RetPath(SelfTy), <<>>, <<>>),
    Builder(<<"n", "e", "w">>, "none", RetPath(SelfTy),
            <<IdentArg(<<"p", "e", "r", "m", "i", "t", "s">>, <<"u", "s", "i", "z",
                "e">>)>>, <<>>),
    Builder(<<"n", "e", "w">>, "none", RetPath(SelfTy), <<>>, <<>>),
    Builder(<<"w", "i", "t", "h", "_", "s", "e", "e", "d">>, "&mut self",
        RetPath(SelfTy),
            <<IdentArg(<<"s", "e", "e", "d">>, <<"u", "6", "4">>)>>, <<>>),
    Builder(<<"w", "i", "t", "h", "_", "s", "y", "n", "c">>, "&self", RetPath(SelfTy),
        <<>>, <<>>),
    Builder(<<"w", "i", "t", "h", "_", "r", "e", "t", "r", "i", "e", "s">>, "self",
        RetPath(<<"R", "e", "t", "r", "y", "B", "u", "i", "l", "d", "e", "r">>),
            <<IdentArg(<<"r", "e", "t", "r", "i", "e", "s">>, <<"u", "s", "i", "z",
                "e">>)>>, <<>>),
    Builder(<<"w", "i", "t", "h", "_", "r", "e", "t", "r", "i", "e", "s">>, "self",
        RetReference(SelfTy),
            <<IdentArg(<<"r", "e", "t", "r", "i", "e", "s">>, <<"u", "s", "i", "z",
                "e">>)>>, <<>>),
    Builder(<<"w", "i", "t", "h", "_", "r", "e", "t", "r", "i", "e", "s">>, "self",
        RetTuple(SelfTy),
            <<IdentArg(<<"r", "e", "t", "r", "i", "e", "s">>, <<"u", "s", "i", "z",
                "e">>)>>, <<>>),
    Builder(<<"w", "i", "t", "h", "_", "r", "e", "t", "r", "i", "e", "s">>, "self",
        NoReturn,
            <<IdentArg(<<"r", "e", "t", "r", "i", "e", "s">>, <<"u", "s", "i", "z",
                "e">>)>>, <<>>),
    Fn(struct_name, "private", <<"w", "i", "t", "h", "_", "l", "i", "m", "i", "t">>,
        "self", RetPath(SelfTy),
       <<IdentArg(<<"l", "i", "m", "i", "t">>, <<"u", "3", "2">>)>>, <<>>),
    Fn(<<"R", "e", "t", "r", "y", "I", "n", "t", "e", "r", "c", "e", "p", "t", "o",
        "r">>, "pub", <<"w", "i", "t", "h", "_", "l", "e", "v", "e", "l">>, "self",
        RetPath(SelfTy),
       <<IdentArg(<<"l", "e", "v", "e", "l">>, <<"u", "8">>)>>, <<>>) }

\* The most methods a source file declares.
MaxMethods == 2

\* A source file declares no method name twice.
distinct_names(items) ==
  \A i, j \in DOMAIN items : i # j => items[i].name # items[j].name

Sources ==
  {s \in UNION {[1..n -> Pool] : n \in 0..MaxMethods} : distinct_names(s)}

(* ------------------------------ the state ------------------------------ *)

VARIABLES
  src,              \* the impl items of the source file, in declaration order
  pc,               \* where generate is: idle, parsed, loop, done, panicked
  methods,          \* layer_def.methods, sorted once pc = "loop"
  idx,              \* the methods the loop has consumed
  new_args,         \* the parameter declarations of the constructor
  signature_args,   \* the entries of #[pyo3(signature = (..))]
  doc_params,       \* the entries of the Parameters section
  new_assignments,  \* the conditional builder calls of the body
  stderr,           \* the diagnostics of this run: <<method name, type>>
  code,             \* the result of generate: <<>> until Ok, then <<code>>
  pass,             \* "first", or "again" for the run after Rerun/Reformat
  prev_src,         \* the source of the run before
  prev_pc,          \* how the run before ended
  prev_code,        \* what the run before returned
  ty_table,         \* the type table asked last: "none", "str", "layer", ..
  ty_query,         \* what it was asked: a type name, is_option
  ty_answer,        \* what it answered
  ctor,             \* the constructor called: <<>>, or <<its args, base, body>>
  ctor_given,       \* the argument the call gave to each parameter
  ctor_layer,       \* the value it built: <<>>, or <<base and builder calls>>
  rs_fn,            \* the find_dependency_path called: "none", "utils", ..
  rs_manifest,      \* how Cargo.toml resolved in that call
  rs_packages,      \* metadata.packages of that call
  rs_name,          \* the name the call was given
  rs_result,        \* what it returned: <<>>, <<"Ok", dir>>, <<"Err", text>>
  manifest,         \* how the Cargo.toml of the package resolves
  packages,         \* metadata.packages of the workspace
  files,            \* the source files that exist
  disk,             \* the content of each output path, <<>> when absent
  runs,             \* the invocations of the driver, each with its locals
  future,           \* the RuntimeFuture of the operation in flight
  threads,          \* each thread: its runtime contexts, its place in poll
  SHARED_REGISTRY,  \* the OnceLock: <<>> when empty, else <<registry>>
  callers           \* the calls of initialize_shared_types, one per caller

vars ==
  <<src, pc, methods, idx, new_args, signature_args, doc_params,
    new_assignments, stderr, code, pass, prev_src, prev_pc, prev_code,
    ty_table, ty_query, ty_answer, ctor, ctor_given, ctor_layer, rs_fn,
    rs_manifest, rs_packages, rs_name, rs_result, manifest, packages, files,
    disk, runs, future, threads, SHARED_REGISTRY, callers>>

acc == <<new_args, signature_args, doc_params, new_assignments>>

prev == <<pass, prev_src, prev_pc, prev_code>>

\* The type tables, asked on their own.
ty == <<ty_table, ty_query, ty_answer>>

\* A call of a constructor.
ct == <<ctor, ctor_given, ctor_layer>>

\* A call of find_dependency_path.
rs == <<rs_fn, rs_manifest, rs_packages, rs_name, rs_result>>

\* The workspace the driver runs in, and its invocations.
dr == <<manifest, packages, files, disk, runs>>

\* The runtime layer: the future and the threads that poll it.
ly == <<future, threads>>

\* The shared type registry and the calls that initialize it.
tr == <<SHARED_REGISTRY, callers>>

\* What a run of generate leaves alone.
outside_generate == <<ty, ct, rs, dr, ly, tr>>

\* No table has been asked.
TablesIdle ==
  /\ ty_table = "none"
  /\ ty_query = [name |-> <<>>, is_option |-> FALSE]
  /\ ty_answer = <<>>

\* No constructor has been called.
CtorIdle ==
  /\ ctor = <<>>
  /\ ctor_given = <<>>
  /\ ctor_layer = <<>>

\* find_dependency_path has not been called.
ResolverIdle ==
  /\ rs_fn = "none"
  /\ rs_manifest = "ok"
  /\ rs_packages = <<>>
  /\ rs_name = <<>>
  /\ rs_result = <<>>

\* The driver has not been invoked.
DriverIdle ==
  /\ manifest = "ok"
  /\ packages = <<>>
  /\ files = {}
  /\ disk = <<>>
  /\ runs = <<>>

\* No operation goes through the runtime layer.
RuntimeIdle ==
  /\ future = <<>>
  /\ threads = <<>>

\* The registry is empty and nobody initializes it.
RegistryIdle ==
  /\ SHARED_REGISTRY = <<>>
  /\ callers = <<>>

Init ==
  /\ src \in Sources
  /\ pc = "idle"
  /\ methods = <<>>
  /\ idx = 0
  /\ new_args = <<>>
  /\ signature_args = <<>>
  /\ doc_params = <<>>
  /\ new_assignments = <<>>
  /\ stderr = <<>>
  /\ code = <<>>
  /\ pass = "first"
  /\ prev_src = <<>>
  /\ prev_pc = "none"
  /\ prev_code = <<>>
  /\ TablesIdle
  /\ CtorIdle
  /\ ResolverIdle
  /\ DriverIdle
  /\ RuntimeIdle
  /\ RegistryIdle

\* generate, up to the parsed layer definition; the dependency and its
\* source file are taken as found.
Parse ==
  /\ pc = "idle"
  /\ IF parse_layer_def_panics(src)
       THEN /\ pc' = "panicked"
            /\ UNCHANGED <<methods, stderr, code>>
     ELSE /\ methods' = parse_layer_def(src)
          /\ stderr' = <<>>
          /\ code' = <<>>
          /\ pc' = "parsed"
  /\ UNCHANGED <<src, idx, acc, prev, outside_generate>>

\* A loop set-up that keeps the vectors of the run before.
SortKeepingVectors ==
  /\ pc = "parsed"
  /\ methods' = sort_by_arg_name(methods)
  /\ idx' = 0
  /\ pc' = "loop"
  /\ UNCHANGED <<src, acc, stderr, code, prev, outside_generate>>

\* The four vectors start empty and the methods are sorted by arg_name.
Sort ==
  /\ pc = "parsed"
  /\ new_args' = <<>>
  /\ signature_args' = <<>>
  /\ doc_params' = <<>>
  /\ new_assignments' = <<>>
  /\ methods' = sort_by_arg_name(methods)
  /\ idx' = 0
  /\ pc' = "loop"
  /\ UNCHANGED <<src, stderr, code, prev, outside_generate>>

\* A loop turn that writes the documentation entry before the type match
\* can skip the method.
MethodDocumentedFirst ==
  /\ pc = "loop"
  /\ idx < Len(methods)
  /\ LET method == methods[idx + 1]
         info == type_mapping(method.arg_type)
     IN IF ~is_ident(method.arg_name)
          THEN /\ pc' = "panicked"
               /\ UNCHANGED <<idx, acc, stderr>>
        ELSE IF ~info.supported
          THEN /\ stderr' = Append(stderr, <<method.name, method.arg_type>>)
               /\ doc_params' = Append(doc_params, doc_param(method, info))
               /\ idx' = idx + 1
               /\ UNCHANGED <<pc, new_args, signature_args, new_assignments>>
        ELSE /\ new_args' = Append(new_args, new_arg(method, info))
             /\ signature_args' = Append(signature_args, signature_arg(method, info))
             /\ doc_params' = Append(doc_params, doc_param(method, info))
             /\ new_assignments' = Append(new_assignments, new_assignment(method, info))
             /\ idx' = idx + 1
             /\ UNCHANGED <<pc, stderr>>
  /\ UNCHANGED <<src, methods, code, prev, outside_generate>>

\* One turn of `for method in methods`: format_ident! panics on an arg_name
\* that is no identifier; an unsupported type is reported and skipped; a
\* supported one adds its parameter, signature entry, doc entry and call.
Method ==
  /\ pc = "loop"
  /\ idx < Len(methods)
  /\ LET method == methods[idx + 1]
         info == type_mapping(method.arg_type)
     IN IF ~is_ident(method.arg_name)
          THEN /\ pc' = "panicked"
               /\ UNCHANGED <<idx, acc, stderr>>
        ELSE IF ~info.supported
          THEN /\ stderr' = Append(stderr, <<method.name, method.arg_type>>)
               /\ idx' = idx + 1
               /\ UNCHANGED <<pc, acc>>
        ELSE /\ new_args' = Append(new_args, new_arg(method, info))
             /\ signature_args' = Append(signature_args, signature_arg(method, info))
             /\ doc_params' = Append(doc_params, doc_param(method, info))
             /\ new_assignments' = Append(new_assignments, new_assignment(method, info))
             /\ idx' = idx + 1
             /\ UNCHANGED <<pc, stderr>>
  /\ UNCHANGED <<src, methods, code, prev, outside_generate>>

\* The docstring and the rendered declaration: Ok(code.to_string()).
Finish ==
  /\ pc = "loop"
  /\ idx = Len(methods)
  /\ code' = <<[doc |-> doc_string_of(doc_params),
               signature |-> signature_args,
               args |-> new_args,
               base |-> base_value,
               body |-> new_assignments]>>
  /\ pc' = "done"
  /\ UNCHANGED <<src, methods, idx, acc, stderr, prev, outside_generate>>

Ended == pc \in {"done", "panicked"}

\* The build runs generate again on the unchanged source.
Rerun ==
  /\ Ended
  /\ pass = "first"
  /\ pass' = "again"
  /\ prev_src' = src
  /\ prev_pc' = pc
  /\ prev_code' = code
  /\ pc' = "idle"
  /\ UNCHANGED <<src, methods, idx, acc, stderr, code, outside_generate>>

\* Upstream moves one declaration past its neighbour, and the build runs
\* generate again.
Reformat ==
  /\ Ended
  /\ pass = "first"
  /\ \E i \in 1..(Len(src) - 1) :
       src' = [src EXCEPT ![i] = src[i + 1], ![i + 1] = src[i]]
  /\ pass' = "again"
  /\ prev_src' = src
  /\ prev_pc' = pc
  /\ prev_code' = code
  /\ pc' = "idle"
  /\ UNCHANGED <<methods, idx, acc, stderr, code, outside_generate>>

Next == Parse \/ Sort \/ Method \/ Finish \/ Rerun \/ Reformat

Spec == Init /\ [][Next]_vars

(* ------------------------------ the claims ----------------------------- *)

\* The generated declaration, once generate has returned Ok.
Generated == code[1]

\* The source declares a method that the extraction described.
Described(m) == \E k \in DOMAIN methods : methods[k].name = m.name

\* The declaration a descriptor was extracted from.
DeclOf(d) == CHOOSE i \in DOMAIN src : src[i].name = d.name

\* The descriptor set is that of src (methods of a run before are stale
\* until Parse has run).
Extracted == pc # "idle"

Supported(d) == type_mapping(d.arg_type).supported

\* Both sequences hold the same declarations, each as often.
SameDeclarations(s, t) ==
  /\ Len(s) = Len(t)
  /\ \A m \in Pool :
       Cardinality({i \in DOMAIN s : s[i] = m})
         = Cardinality({i \in DOMAIN t : t[i] = m})

\* C1: in the output of generate the constructor parameters, and their
\* documentation entries, are in ascending order of argument_name, whatever
\* the order of declaration.
C1_ParametersSortedByArgName ==
  pc = "done" =>
    /\ \A i, j \in DOMAIN Generated.args :
         i < j => StrCmp(Generated.args[i].name, Generated.args[j].name) <= 0
    /\ Len(doc_params) = Len(Generated.args)
    /\ \A i \in DOMAIN Generated.args :
         starts_with(doc_params[i], Generated.args[i].name \o <<" ", ":", " ">>)

\* C1 happens: `max_times` is declared before `jitter`, and the output lists
\* `jitter` first.
C1_Witness ==
  /\ pc = "done"
  /\ Len(src) = 2
  /\ src[1].name = <<"w", "i", "t", "h", "_", "m", "a", "x", "_", "t", "i", "m", "e",
      "s">>
  /\ src[2].name = <<"w", "i", "t", "h", "_", "j", "i", "t", "t", "e", "r">>
  /\ Len(Generated.args) = 2
  /\ Generated.args[1].name = <<"j", "i", "t", "t", "e", "r">>
  /\ Generated.args[2].name = <<"m", "a", "x", "_", "t", "i", "m", "e", "s">>

\* C2: two sources that declare the same methods in a different order give
\* the same output, also when two methods share an argument_name.
C2_OutputIndependentOfOrder ==
  (pass = "again" /\ Ended /\ SameDeclarations(src, prev_src)) =>
    (pc = prev_pc /\ code = prev_code)

C4_UnsupportedSetterSkipped ==
  Ended =>
    \A k \in DOMAIN methods :
      ~Supported(methods[k]) =>
        /\ pc = "done"
        /\ \A i \in DOMAIN Generated.body :
             Generated.body[i].method # methods[k].name
        /\ Len(Generated.args) = Len(Generated.body)
        /\ Len(doc_params) = Len(Generated.body)
        /\ Cardinality({i \in DOMAIN stderr :
              stderr[i] = <<methods[k].name, methods[k].arg_type>>}) = 1
        /\ \A j \in DOMAIN methods :
             Supported(methods[j]) =>
               \E i \in DOMAIN Generated.body :
                 Generated.body[i].method = methods[j].name

\* What C5 says of one method without parameters.
ToggleRule(m) ==
  /\ Described(m) <=> starts_with(m.name, <<"w", "i", "t", "h", "_">>)
  /\ \A k \in DOMAIN methods :
       methods[k].name = m.name =>
         /\ <<"w", "i", "t", "h", "_">> \o methods[k].arg_name = m.name
         /\ methods[k].arg_type = <<"b", "o", "o", "l">>
         /\ methods[k].is_toggle

\* C5 as stated: every public method of the target type without parameters is
\* described exactly if its name begins with `with_`, as a boolean toggle
\* named by the rest of the name.
C5_Original ==
  Extracted =>
    \A i \in DOMAIN src :
      (/\ src[i].self_ty = struct_name
       /\ src[i].vis = "pub"
       /\ Len(src[i].inputs) = 0) => ToggleRule(src[i])

\* C5 amended: the same, for the public methods without parameters that take
\* a receiver and return `Self` or the enclosing type.
C5_ToggleIffPrefix ==
  Extracted =>
    \A i \in DOMAIN src :
      (/\ src[i].self_ty = struct_name
       /\ src[i].vis = "pub"
       /\ src[i].receiver # "none"
       /\ src[i].output.kind = "path"
       /\ src[i].output.ident \in {SelfTy, struct_name}
       /\ Len(src[i].inputs) = 0) => ToggleRule(src[i])

\* C5 happens: `with_jitter(self)` is described as the toggle `jitter`, and
\* `build(self)` is not described.
C5_Witness ==
  /\ pc = "parsed"
  /\ \E i \in DOMAIN src : src[i].name = <<"b", "u", "i", "l",
      "d">> /\ ~Described(src[i])
  /\ \E k \in DOMAIN methods :
       /\ methods[k].name = <<"w", "i", "t", "h", "_", "j", "i", "t", "t", "e", "r">>
       /\ methods[k].arg_name = <<"j", "i", "t", "t", "e", "r">>
       /\ methods[k].arg_type = <<"b", "o", "o", "l">>
       /\ methods[k].is_toggle

\* C6: every described method returns the enclosing type or `Self`; one that
\* returns another type, a reference, a tuple or nothing is not described.
C6_ReturnsSelfOrStruct ==
  Extracted =>
    \A k \in DOMAIN methods :
      /\ src[DeclOf(methods[k])].output.kind = "path"
      /\ src[DeclOf(methods[k])].output.ident \in {SelfTy, struct_name}

C8_ReceiverByValue ==
  Extracted =>
    \A k \in DOMAIN methods :
      src[DeclOf(methods[k])].receiver \in {"self", "mut self"}

\* The source declares the static factory `new` with one parameter of a
\* supported type.
FactoryWithOneArg(m) ==
  /\ m.self_ty = struct_name
  /\ m.vis = "pub"
  /\ m.name = <<"n", "e", "w">>
  /\ m.receiver = "none"
  /\ Len(m.inputs) = 1
  /\ type_mapping(arg_type_of(m.inputs[1])).supported

NewWithoutArgs(m) ==
  /\ m.self_ty = struct_name
  /\ m.vis = "pub"
  /\ m.name = <<"n", "e", "w">>
  /\ Len(m.inputs) = 0

\* C10: a `new` without parameters contributes no constructor parameter, and
\* the body starts from the default-constructed value of the target type.
C10_ParameterlessNewFallsBack ==
  pc = "done" =>
    \A i \in DOMAIN src :
      NewWithoutArgs(src[i]) =>
        /\ \A k \in DOMAIN Generated.body : Generated.body[k].method # <<"n", "e", "w">>
        /\ Len(Generated.args) = Len(Generated.body)
        /\ Len(Generated.args) <= Len(src) - 1
        /\ Generated.base = [ty |-> struct_name, call |-> "default", args |-> <<>>]

\* C10 happens: `new()` is declared next to a toggle, and the output has the
\* toggle's parameter alone.
C10_Witness ==
  /\ pc = "done"
  /\ \E i \in DOMAIN src : NewWithoutArgs(src[i])
  /\ Len(Generated.args) = 1
  /\ Generated.args[1].name = <<"j", "i", "t", "t", "e", "r">>

(* ---------------------------- the type tables -------------------------- *)

\* types.rs TypeInfo: rust_type, py_type_doc, default_val, is_bool.
PyTypeInfo(rust_type, py_type_doc, default_val, is_bool) ==
  [rust_type |-> rust_type, py_type_doc |-> py_type_doc,
   default_val |-> default_val, is_bool |-> is_bool]

\* A string-keyed table without the String arm.
get_type_info_from_str_no_string(type_str) ==
  IF type_str = <<"b", "o", "o", "l">>
    THEN PyTypeInfo(<<"b", "o", "o", "l">>, <<"b", "o", "o", "l">>, <<"f", "a", "l",
        "s", "e">>, TRUE)
  ELSE IF type_str \in IntTypes
    THEN PyTypeInfo(type_str, <<"i", "n", "t">>, <<"N", "o", "n", "e">>, FALSE)
  ELSE IF type_str \in FloatTypes
    THEN PyTypeInfo(type_str, <<"f", "l", "o", "a", "t">>, <<"N", "o", "n", "e">>,
        FALSE)
  ELSE IF type_str = <<"D", "u", "r", "a", "t", "i", "o", "n">>
    THEN PyTypeInfo(<<"s", "t", "d", ":", ":", "t", "i", "m", "e", ":", ":", "D", "u",
        "r", "a", "t", "i", "o", "n">>, <<"d", "a", "t", "e", "t", "i", "m", "e", ".",
        "t", "i", "m", "e", "d", "e", "l", "t", "a">>, <<"N", "o", "n", "e">>,
                    FALSE)
  ELSE PyTypeInfo(<<>>, <<>>, <<>>, FALSE)

\* get_type_info_from_str: the match on the type name; the `_` arm gives
\* the TypeInfo with the empty label.
get_type_info_from_str(type_str) ==
  IF type_str = <<"b", "o", "o", "l">>
    THEN PyTypeInfo(<<"b", "o", "o", "l">>, <<"b", "o", "o", "l">>, <<"f", "a", "l",
        "s", "e">>, TRUE)
  ELSE IF type_str = <<"S", "t", "r", "i", "n", "g">>
    THEN PyTypeInfo(<<"S", "t", "r", "i", "n", "g">>, <<"s", "t", "r">>, <<"N", "o",
        "n", "e">>, FALSE)
  ELSE IF type_str \in IntTypes
    THEN PyTypeInfo(type_str, <<"i", "n", "t">>, <<"N", "o", "n", "e">>, FALSE)
  ELSE IF type_str \in FloatTypes
    THEN PyTypeInfo(type_str, <<"f", "l", "o", "a", "t">>, <<"N", "o", "n", "e">>,
        FALSE)
  ELSE IF type_str = <<"D", "u", "r", "a", "t", "i", "o", "n">>
    THEN PyTypeInfo(<<"s", "t", "d", ":", ":", "t", "i", "m", "e", ":", ":", "D", "u",
        "r", "a", "t", "i", "o", "n">>, <<"d", "a", "t", "e", "t", "i", "m", "e", ".",
        "t", "i", "m", "e", "d", "e", "l", "t", "a">>, <<"N", "o", "n", "e">>,
                    FALSE)
  ELSE PyTypeInfo(<<>>, <<>>, <<>>, FALSE)

\* enum ConfigType, by the names of its variants.
ConfigTypes ==
  {<<"B", "o", "o", "l">>, <<"S", "t", "r", "i", "n", "g">>, <<"D", "u", "r", "a", "t",
      "i", "o", "n">>, <<"U", "s", "i", "z", "e">>, <<"U", "6", "4">>, <<"I", "6",
      "4">>, <<"U", "3", "2">>, <<"U", "1", "6">>, <<"V", "e", "c">>}

\* The base type of a ConfigType that is neither Bool, String, Duration nor
\* Vec: usize, u64, i64, u32, u16.
config_int_type(config_type) ==
  IF config_type = <<"U", "s", "i", "z", "e">> THEN <<"u", "s", "i", "z", "e">>
  ELSE IF config_type = <<"U", "6", "4">> THEN <<"u", "6", "4">>
  ELSE IF config_type = <<"I", "6", "4">> THEN <<"i", "6", "4">>
  ELSE IF config_type = <<"U", "3", "2">> THEN <<"u", "3", "2">>
  ELSE <<"u", "1", "6">>

\* A config table that hands Duration to the host as std::time::Duration.
get_type_info_from_config_type_timedelta(config_type) ==
  IF config_type = <<"B", "o", "o", "l">>
    THEN PyTypeInfo(<<"b", "o", "o", "l">>, <<"b", "o", "o", "l">>, <<"f", "a", "l",
        "s", "e">>, TRUE)
  ELSE IF config_type = <<"S", "t", "r", "i", "n", "g">>
    THEN PyTypeInfo(<<"S", "t", "r", "i", "n", "g">>, <<"s", "t", "r">>, <<"N", "o",
        "n", "e">>, FALSE)
  ELSE IF config_type = <<"D", "u", "r", "a", "t", "i", "o", "n">>
    THEN PyTypeInfo(<<"s", "t", "d", ":", ":", "t", "i", "m", "e", ":", ":", "D", "u",
        "r", "a", "t", "i", "o", "n">>, <<"d", "a", "t", "e", "t", "i", "m", "e", ".",
        "t", "i", "m", "e", "d", "e", "l", "t", "a">>, <<"N", "o", "n", "e">>,
                    FALSE)
  ELSE IF config_type = <<"V", "e", "c">>
    THEN PyTypeInfo(<<"V", "e", "c", "<", "S", "t", "r", "i", "n", "g", ">">>, <<"L",
        "i", "s", "t", "[", "s", "t", "r", "]">>, <<"N", "o", "n", "e">>, FALSE)
  ELSE PyTypeInfo(config_int_type(config_type), <<"i", "n", "t">>, <<"N", "o", "n",
      "e">>, FALSE)

\* get_type_info_from_config_type: the match on the ConfigType.
get_type_info_from_config_type(config_type) ==
  IF config_type = <<"B", "o", "o", "l">>
    THEN PyTypeInfo(<<"b", "o", "o", "l">>, <<"b", "o", "o", "l">>, <<"f", "a", "l",
        "s", "e">>, TRUE)
  ELSE IF config_type = <<"S", "t", "r", "i", "n", "g">>
    THEN PyTypeInfo(<<"S", "t", "r", "i", "n", "g">>, <<"s", "t", "r">>, <<"N", "o",
        "n", "e">>, FALSE)
  ELSE IF config_type = <<"D", "u", "r", "a", "t", "i", "o", "n">>
    THEN PyTypeInfo(<<"S", "t", "r", "i", "n", "g">>, <<"s", "t", "r">>, <<"N", "o",
        "n", "e">>, FALSE)
  ELSE IF config_type = <<"V", "e", "c">>
    THEN PyTypeInfo(<<"V", "e", "c", "<", "S", "t", "r", "i", "n", "g", ">">>, <<"L",
        "i", "s", "t", "[", "s", "t", "r", "]">>, <<"N", "o", "n", "e">>, FALSE)
  ELSE PyTypeInfo(config_int_type(config_type), <<"i", "n", "t">>, <<"N", "o", "n",
      "e">>, FALSE)

\* make_rust_type of the service generator: the base type, in Option<..>
\* for an optional field and for every bool.
make_rust_type(ty_, is_option) ==
  LET base_type ==
        IF ty_ = <<"B", "o", "o", "l">> THEN <<"b", "o", "o", "l">>
        ELSE IF ty_ = <<"S", "t", "r", "i", "n", "g">> THEN <<"S", "t", "r", "i", "n",
            "g">>
        ELSE IF ty_ = <<"D", "u", "r", "a", "t", "i", "o", "n">> THEN <<"S", "t", "r",
            "i", "n", "g">>
        ELSE IF ty_ = <<"V", "e", "c">> THEN <<"V", "e", "c", "<", "S", "t", "r", "i",
            "n", "g", ">">>
        ELSE config_int_type(ty_)
      optional == is_option \/ ty_ = <<"B", "o", "o", "l">>
  IN IF optional THEN <<"O", "p", "t", "i", "o", "n",
      "<">> \o base_type \o <<">">> ELSE base_type

\* The type names asked of the string-keyed tables: those of the tables, the
\* other primitive types, generic and foreign types, and misspellings.
TypeNames ==
  IntTypes \cup FloatTypes
    \cup {<<"b", "o", "o", "l">>, <<"S", "t", "r", "i", "n", "g">>, <<"D", "u", "r",
        "a", "t", "i", "o", "n">>, <<"i", "1", "2", "8">>, <<"u", "1", "2", "8">>,
        <<"V", "e", "c">>, <<"O", "p", "t", "i", "o", "n">>, <<"A", "r", "c">>,
          <<"u", "n", "k", "n", "o", "w", "n">>, <<"s", "t", "r">>, <<"c", "h", "a",
              "r">>, <<"P", "a", "t", "h", "B", "u", "f">>, <<"H", "a", "s", "h", "M",
              "a", "p">>, <<"B", "o", "o", "l">>, <<"s", "t", "r", "i", "n", "g">>,
          <<"d", "u", "r", "a", "t", "i", "o", "n">>, <<"i", "n", "t">>, <<"f", "l",
              "o", "a", "t">>, <<"U", "s", "i", "z", "e">>, <<"U", "6", "4">>, <<"F",
              "6", "4">>, <<"u", "2", "5", "6">>, <<"f", "1", "6">>,
          <<"S", "e", "l", "f">>, <<"B", "o", "x">>, <<"T">>, <<>>}

\* generate is not running.
GenerateIdle ==
  /\ src = <<>>
  /\ pc = "idle"
  /\ methods = <<>>
  /\ idx = 0
  /\ new_args = <<>>
  /\ signature_args = <<>>
  /\ doc_params = <<>>
  /\ new_assignments = <<>>
  /\ stderr = <<>>
  /\ code = <<>>
  /\ pass = "first"
  /\ prev_src = <<>>
  /\ prev_pc = "none"
  /\ prev_code = <<>>

generate_vars ==
  <<src, pc, methods, idx, acc, stderr, code, prev>>

\* What a question to a type table leaves alone.
outside_tables == <<generate_vars, ct, rs, dr, ly, tr>>

InitTypes ==
  /\ GenerateIdle /\ TablesIdle /\ CtorIdle /\ ResolverIdle /\ DriverIdle
  /\ RuntimeIdle /\ RegistryIdle

\* get_type_info_from_str is called with a type name.
AskStr ==
  /\ \E name \in TypeNames :
       /\ ty_query' = [name |-> name, is_option |-> FALSE]
       /\ ty_answer' = <<get_type_info_from_str(name)>>
  /\ ty_table' = "str"
  /\ UNCHANGED outside_tables

\* The type match of the layer generator is run on a type name.
AskLayer ==
  /\ \E name \in TypeNames :
       /\ ty_query' = [name |-> name, is_option |-> FALSE]
       /\ ty_answer' = <<type_mapping(name)>>
  /\ ty_table' = "layer"
  /\ UNCHANGED outside_tables

\* get_type_info_from_config_type is called with a ConfigType.
AskConfig ==
  /\ \E config_type \in ConfigTypes :
       /\ ty_query' = [name |-> config_type, is_option |-> FALSE]
       /\ ty_answer' = <<get_type_info_from_config_type(config_type)>>
  /\ ty_table' = "config"
  /\ UNCHANGED outside_tables

\* make_rust_type is called by the service template.
AskRustType ==
  /\ \E config_type \in ConfigTypes, is_option \in BOOLEAN :
       /\ ty_query' = [name |-> config_type, is_option |-> is_option]
       /\ ty_answer' = <<make_rust_type(config_type, is_option)>>
  /\ ty_table' = "make_rust_type"
  /\ UNCHANGED outside_tables

NextTypes == AskStr \/ AskLayer \/ AskConfig \/ AskRustType

SpecTypes == InitTypes /\ [][NextTypes]_vars

\* The answer of the table asked last.
Answer == ty_answer[1]

\* The names get_type_info_from_str has an arm for.
StrTableNames ==
  {<<"b", "o", "o", "l">>, <<"S", "t", "r", "i", "n", "g">>, <<"u", "s", "i", "z",
      "e">>, <<"u", "6", "4">>, <<"i", "6", "4">>, <<"u", "3", "2">>, <<"u", "1", "6">>,
      <<"i", "s", "i", "z", "e">>, <<"i", "3", "2">>, <<"i", "1", "6">>,
   <<"i", "8">>, <<"u", "8">>, <<"f", "3", "2">>, <<"f", "6", "4">>, <<"D", "u", "r",
       "a", "t", "i", "o", "n">>}

\* C12: get_type_info_from_str answers every name with a TypeInfo, whose
\* label is non-empty for every supported name and empty, with is_bool false,
\* for every other name.
C12_StrTableTotal ==
  ty_table = "str" =>
    /\ Len(ty_answer) = 1
    /\ DOMAIN Answer = {"rust_type", "py_type_doc", "default_val", "is_bool"}
    /\ Answer.is_bool \in BOOLEAN
    /\ (ty_query.name \in StrTableNames) <=> (Answer.py_type_doc # <<>>)
    /\ Answer.py_type_doc = <<>> => ~Answer.is_bool

\* C12 happens: the table has been asked a name it has no arm for, and has
\* answered with the empty label.
C12_Witness ==
  /\ ty_table = "str"
  /\ ty_query.name = <<"A", "r", "c">>
  /\ Answer.py_type_doc = <<>>
  /\ ~Answer.is_bool

\* The integer type names of the language.
AllIntTypes ==
  {<<"i", "8">>, <<"i", "1", "6">>, <<"i", "3", "2">>, <<"i", "6", "4">>, <<"i", "1",
      "2", "8">>, <<"u", "8">>, <<"u", "1", "6">>, <<"u", "3", "2">>, <<"u", "6", "4">>,
      <<"u", "1", "2", "8">>, <<"i", "s", "i", "z", "e">>,
   <<"u", "s", "i", "z", "e">>}

\* The label of an answer of either string-keyed table.
LabelOf(answer) == answer.py_type_doc

\* The answer of a string-keyed table is a supported type.
SupportedAnswer ==
  IF ty_table = "layer" THEN Answer.supported ELSE Answer.py_type_doc # <<>>

\* C13: every integer type name maps to a supported `int`, f32 and f64 to
\* `float`, and a text sequence to a supported list type, in each table.
C13_NumbersAndListsSupported ==
  /\ ty_table \in {"str", "layer"} =>
       /\ ty_query.name \in AllIntTypes =>
            SupportedAnswer /\ LabelOf(Answer) = <<"i", "n", "t">>
       /\ ty_query.name \in {<<"f", "3", "2">>, <<"f", "6", "4">>} =>
            SupportedAnswer /\ LabelOf(Answer) = <<"f", "l", "o", "a", "t">>
       /\ ty_query.name = <<"V", "e", "c">> =>
            SupportedAnswer /\ LabelOf(Answer) = <<"L", "i", "s", "t", "[", "s", "t",
                "r", "]">>
  /\ ty_table = "config" =>
       /\ ty_query.name \in {<<"U", "s", "i", "z", "e">>, <<"U", "6", "4">>, <<"I", "6",
           "4">>, <<"U", "3", "2">>, <<"U", "1", "6">>} =>
            LabelOf(Answer) = <<"i", "n", "t">>
       /\ ty_query.name = <<"V", "e", "c">> => LabelOf(Answer) = <<"L", "i", "s", "t",
           "[", "s", "t", "r", "]">>

\* C14: the layer tables map Duration to std::time::Duration, the service
\* tables map it to String / `str`, and the two differ.
C14_DurationPerVariant ==
  ty_query.name = <<"D", "u", "r", "a", "t", "i", "o", "n">> =>
    /\ ty_table = "str" =>
         /\ Answer.rust_type = <<"s", "t", "d", ":", ":", "t", "i", "m", "e", ":", ":",
             "D", "u", "r", "a", "t", "i", "o", "n">>
         /\ Answer.rust_type # get_type_info_from_config_type(<<"D", "u", "r", "a", "t",
             "i", "o", "n">>).rust_type
         /\ Answer.py_type_doc # get_type_info_from_config_type(<<"D", "u", "r", "a",
             "t", "i", "o", "n">>).py_type_doc
    /\ ty_table = "layer" =>
         /\ Answer.py_type = <<"s", "t", "d", ":", ":", "t", "i", "m", "e", ":", ":",
             "D", "u", "r", "a", "t", "i", "o", "n">>
         /\ Answer.py_type # get_type_info_from_config_type(<<"D", "u", "r", "a", "t",
             "i", "o", "n">>).rust_type
    /\ ty_table = "config" =>
         /\ Answer.rust_type = <<"S", "t", "r", "i", "n", "g">>
         /\ Answer.py_type_doc = <<"s", "t", "r">>
    /\ ty_table = "make_rust_type" =>
         Answer = IF ty_query.is_option THEN <<"O", "p", "t", "i", "o", "n", "<", "S",
             "t", "r", "i", "n", "g", ">">> ELSE <<"S", "t", "r", "i", "n", "g">>

\* C14 happens: the service table has been asked for Duration and has
\* answered String.
C14_Witness ==
  /\ ty_table = "config"
  /\ ty_query.name = <<"D", "u", "r", "a", "t", "i", "o", "n">>
  /\ Answer.rust_type = <<"S", "t", "r", "i", "n", "g">>

(* --------------------------- the constructors -------------------------- *)

\* What generate returns for a source, as one expression: <<>> when it
\* panics, in parse_layer_def or in format_ident! on an arg_name, else the parameters, the base value
\* and the body of the constructor.
generate_of(source) ==
  LET ms == sort_by_arg_name(parse_layer_def(source))
      emitted == SelectSeq(ms, LAMBDA m : type_mapping(m.arg_type).supported)
  IN IF parse_layer_def_panics(source) THEN <<>>
     ELSE IF \E i \in DOMAIN ms : ~is_ident(ms[i].arg_name) THEN <<>>
     ELSE <<[args |-> [i \in DOMAIN emitted |->
                         new_arg(emitted[i], type_mapping(emitted[i].arg_type))],
             base |-> base_value,
             body |-> [i \in DOMAIN emitted |->
                         new_assignment(emitted[i],
                                        type_mapping(emitted[i].arg_type))]]>>

\* PyRetryLayer::new of the hand-written wrapper: its parameters, the value
\* it starts from and its conditional builder calls, in the order of the
\* body.
PyRetryLayer_new ==
  [args |-> <<[name |-> <<"m", "a", "x", "_", "t", "i", "m", "e", "s">>, ty |-> <<"O",
      "p", "t", "i", "o", "n", "<", "u", "s", "i", "z", "e", ">">>],
              [name |-> <<"f", "a", "c", "t", "o", "r">>, ty |-> <<"O", "p", "t", "i",
                  "o", "n", "<", "f", "3", "2", ">">>],
              [name |-> <<"j", "i", "t", "t", "e", "r">>, ty |-> <<"b", "o", "o",
                  "l">>],
              [name |-> <<"m", "a", "x", "_", "d", "e", "l", "a", "y">>, ty |-> <<"O",
                  "p", "t", "i", "o", "n", "<", "f", "6", "4", ">">>],
              [name |-> <<"m", "i", "n", "_", "d", "e", "l", "a", "y">>, ty |-> <<"O",
                  "p", "t", "i", "o", "n", "<", "f", "6", "4", ">">>]>>,
   base |-> [ty |-> <<"R", "e", "t", "r", "y", "L", "a", "y", "e", "r">>,
       call |-> "default", args |-> <<>>],
   body |-> <<[cond |-> "if let Some(v)", name |-> <<"m", "a", "x", "_", "t", "i", "m",
       "e", "s">>,
               method |-> <<"w", "i", "t", "h", "_", "m", "a", "x", "_", "t", "i", "m",
                   "e", "s">>, passes |-> <<"m", "a", "x", "_", "t", "i", "m", "e",
                   "s">>],
              [cond |-> "if let Some(v)", name |-> <<"f", "a", "c", "t", "o", "r">>,
               method |-> <<"w", "i", "t", "h", "_", "f", "a", "c", "t", "o", "r">>,
                   passes |-> <<"f", "a", "c", "t", "o", "r">>],
              [cond |-> "if", name |-> <<"j", "i", "t", "t", "e", "r">>,
                  method |-> <<"w", "i", "t", "h", "_", "j", "i", "t", "t", "e", "r">>,
               passes |-> <<>>],
              [cond |-> "if let Some(v)", name |-> <<"m", "a", "x", "_", "d", "e", "l",
                  "a", "y">>,
               method |-> <<"w", "i", "t", "h", "_", "m", "a", "x", "_", "d", "e", "l",
                   "a", "y">>,
               passes |-> <<"D", "u", "r", "a", "t", "i", "o", "n", ":", ":", "f", "r",
                   "o", "m", "_", "m", "i", "c", "r", "o", "s", "(", "(", "m", "a", "x",
                   "_", "d", "e", "l", "a", "y", " ", "*", " ", "1", "_", "0", "0", "0",
                   "_", "0", "0", "0", ".", "0", ")", " ", "a", "s", " ", "u", "6", "4",
                   ")">>],
              [cond |-> "if let Some(v)", name |-> <<"m", "i", "n", "_", "d", "e", "l",
                  "a", "y">>,
               method |-> <<"w", "i", "t", "h", "_", "m", "i", "n", "_", "d", "e", "l",
                   "a", "y">>,
               passes |-> <<"D", "u", "r", "a", "t", "i", "o", "n", ":", ":", "f", "r",
                   "o", "m", "_", "m", "i", "c", "r", "o", "s", "(", "(", "m", "i", "n",
                   "_", "d", "e", "l", "a", "y", " ", "*", " ", "1", "_", "0", "0", "0",
                   "_", "0", "0", "0", ".", "0", ")", " ", "a", "s", " ", "u", "6", "4",
                   ")">>]>>]

\* A parameter list the compiler accepts binds every name once.
binds_once(args) ==
  \A i, j \in DOMAIN args : i # j => args[i].name # args[j].name

\* The constructors that can be called: the hand-written one, and the
\* generated ones that compile.
Constructors ==
  {PyRetryLayer_new}
    \cup {c[1] : c \in {g \in {generate_of(s) : s \in Sources} :
                          g # <<>> /\ binds_once(g[1].args)}}

\* The arguments a caller can give to a parameter of a type: a bool, or an
\* Option that is None (<<>>) or Some(v).
ArgValues(ty_) ==
  IF ty_ = <<"b", "o", "o", "l">> THEN {TRUE, FALSE}
  ELSE IF ty_ \in {<<"O", "p", "t", "i", "o", "n", "<", "f", "3", "2", ">">>, <<"O",
      "p", "t", "i", "o", "n", "<", "f", "6", "4", ">">>} THEN {<<>>, <<-1>>, <<2>>}
  ELSE {<<>>, <<3>>}

\* The argument lists of a call, one value for each parameter.
RECURSIVE Givens(_)
Givens(args) ==
  IF args = <<>> THEN {<<>>}
  ELSE {<<v>> \o rest : v \in ArgValues(Head(args).ty), rest \in Givens(Tail(args))}

\* `x as u64` of a float: saturating, so a negative number gives 0.
as_u64(x) == IF x < 0 THEN 0 ELSE x

\* A condition that lets every `if` through.
holds_always(cond, v) == IF cond = "if" THEN TRUE ELSE v # <<>>

\* `if name` holds for true, `if let Some(v) = name` for a present value.
holds(cond, v) == IF cond = "if" THEN v = TRUE ELSE v # <<>>

\* The arguments of a builder call: none for a toggle, the bool of a boolean
\* setter, the value of the Option, or the Duration made of its seconds.
passed(entry, v) ==
  IF entry.passes = <<>> THEN <<>>
  ELSE IF entry.cond = "if" THEN <<v>>
  ELSE IF starts_with(entry.passes, <<"D", "u", "r", "a", "t", "i", "o", "n", ":", ":",
      "f", "r", "o", "m", "_", "m", "i", "c", "r", "o", "s", "(">>)
    THEN <<[micros |-> as_u64(v[1] * 1000000)]>>
  ELSE <<v[1]>>

\* The body of a constructor, run on the arguments given: the builder calls
\* made, in order.
RECURSIVE run_body(_, _, _)
run_body(body, args, given) ==
  IF body = <<>> THEN <<>>
  ELSE LET entry == Head(body)
           v == given[CHOOSE i \in DOMAIN args : args[i].name = entry.name]
       IN (IF holds(entry.cond, v)
             THEN <<[method |-> entry.method, args |-> passed(entry, v)]>>
             ELSE <<>>) \o run_body(Tail(body), args, given)

\* What a question to a constructor leaves alone.
outside_ctor == <<generate_vars, ty, rs, dr, ly, tr>>

InitCtor ==
  /\ GenerateIdle /\ TablesIdle /\ ResolverIdle /\ DriverIdle
  /\ RuntimeIdle /\ RegistryIdle
  /\ ctor \in {<<c>> : c \in Constructors}
  /\ ctor_given = <<>>
  /\ ctor_layer = <<>>

\* The constructor is called once with some arguments.
Construct ==
  /\ ctor_layer = <<>>
  /\ \E given \in Givens(ctor[1].args) :
       /\ ctor_given' = given
       /\ ctor_layer' = <<[base |-> ctor[1].base,
                           calls |-> run_body(ctor[1].body, ctor[1].args, given)]>>
  /\ UNCHANGED <<ctor, outside_ctor>>

NextCtor == Construct

SpecCtor == InitCtor /\ [][NextCtor]_vars

\* The value a call built, and the builder methods it invoked.
Built == ctor_layer[1]

Invoked == {Built.calls[i].method : i \in DOMAIN Built.calls}

\* The parameter of index i was supplied: true for a bool, a present value
\* for an Option.
Supplied(i) ==
  IF ctor[1].args[i].ty = <<"b", "o", "o", "l">> THEN ctor_given[i] = TRUE
  ELSE ctor_given[i] # <<>>

\* The builder method the body holds for the parameter of index i.
MethodFor(i) ==
  LET k == CHOOSE k \in DOMAIN ctor[1].body :
             ctor[1].body[k].name = ctor[1].args[i].name
  IN ctor[1].body[k].method

\* C11: a constructor invokes a builder method if and only if its parameter
\* was supplied as true or as a present value; with every argument at its
\* default no builder method is invoked and the result is the base value.
C11_InvokedIffSupplied ==
  ctor_layer # <<>> =>
    /\ \A i \in DOMAIN ctor[1].args : MethodFor(i) \in Invoked <=> Supplied(i)
    /\ Len(Built.calls) = Cardinality({i \in DOMAIN ctor[1].args : Supplied(i)})
    /\ (\A i \in DOMAIN ctor[1].args : ~Supplied(i)) =>
         /\ Built.calls = <<>>
         /\ Built.base.call = "default"
         /\ Built.base.args = <<>>

\* C11 happens: a generated constructor with a toggle and a setter has been
\* called with the toggle true and the setter absent, and has invoked the
\* toggle alone.
C11_Witness ==
  /\ ctor_layer # <<>>
  /\ ctor[1] # PyRetryLayer_new
  /\ Len(ctor[1].args) = 2
  /\ ctor[1].args[1].ty = <<"b", "o", "o", "l">>
  /\ ctor[1].args[2].ty # <<"b", "o", "o", "l">>
  /\ ctor_given[1] = TRUE
  /\ ctor_given[2] = <<>>
  /\ Invoked = {<<"w", "i", "t", "h", "_", "j", "i", "t", "t", "e", "r">>}

(* ----------------------------- the resolver ---------------------------- *)

\* Result<T>.
Ok(v) == <<"Ok", v>>

Err(e) == <<"Err", e>>

\* A package of cargo metadata: its name, its source (<<>> for a member of
\* the workspace, <<s>> for a package that comes from outside) and the path
\* of its manifest.
Package(name, source, manifest_path) ==
  [name |-> name, source |-> source, manifest_path |-> manifest_path]

\* Path::parent: the path without its last component.
parent(path) ==
  SubSeq(path, 1, SetMax({i \in DOMAIN path : path[i] = "/"}) - 1)

\* How package_path/Cargo.toml resolves: canonicalize fails on a missing
\* file, `cargo metadata` fails on a manifest it cannot resolve.
ManifestStates == {"ok", "missing", "unresolvable"}

\* A resolver that takes the first package of the name, whatever its source.
find_dependency_path_any_origin(cargo_toml, pkgs, dep_name) ==
  IF cargo_toml = "missing"
    THEN Err(<<"N", "o", " ", "s", "u", "c", "h", " ", "f", "i", "l", "e", " ", "o",
        "r", " ", "d", "i", "r", "e", "c", "t", "o", "r", "y", " ", "(", "o", "s", " ",
        "e", "r", "r", "o", "r", " ", "2", ")">>)
  ELSE IF cargo_toml = "unresolvable"
    THEN Err(<<"grave", "c", "a", "r", "g", "o", " ", "m", "e", "t", "a", "d", "a", "t",
        "a", "grave", " ", "e", "x", "i", "t", "e", "d", " ", "w", "i", "t", "h", " ",
        "a", "n", " ", "e", "r", "r", "o", "r">>)
  ELSE LET found == {i \in DOMAIN pkgs : pkgs[i].name = dep_name}
       IN IF found = {}
            THEN Err(<<"C", "o", "u", "l", "d", " ", "n", "o", "t", " ", "f", "i", "n",
                "d", " ", "d", "e", "p", "e", "n", "d", "e", "n", "c", "y", " ", "p",
                "a", "c", "k", "a", "g", "e", " ">> \o dep_name)
          ELSE Ok(parent(pkgs[SetMin(found)].manifest_path))

\* A resolver that reports a manifest it cannot resolve as a missing package.
find_dependency_path_one_error(cargo_toml, pkgs, dep_name) ==
  LET found == {i \in DOMAIN pkgs :
                  /\ cargo_toml = "ok"
                  /\ pkgs[i].name = dep_name
                  /\ pkgs[i].source # <<>>}
  IN IF found = {}
       THEN Err(<<"C", "o", "u", "l", "d", " ", "n", "o", "t", " ", "f", "i", "n", "d",
           " ", "d", "e", "p", "e", "n", "d", "e", "n", "c", "y", " ", "p", "a", "c",
           "k", "a", "g", "e", " ">> \o dep_name)
     ELSE Ok(parent(pkgs[SetMin(found)].manifest_path))

\* find_dependency_path of codegen/utils.rs: the directory of the manifest of
\* the first package with the name and with a source.
find_dependency_path(cargo_toml, pkgs, dep_name) ==
  IF cargo_toml = "missing"
    THEN Err(<<"N", "o", " ", "s", "u", "c", "h", " ", "f", "i", "l", "e", " ", "o",
        "r", " ", "d", "i", "r", "e", "c", "t", "o", "r", "y", " ", "(", "o", "s", " ",
        "e", "r", "r", "o", "r", " ", "2", ")">>)
  ELSE IF cargo_toml = "unresolvable"
    THEN Err(<<"grave", "c", "a", "r", "g", "o", " ", "m", "e", "t", "a", "d", "a", "t",
        "a", "grave", " ", "e", "x", "i", "t", "e", "d", " ", "w", "i", "t", "h", " ",
        "a", "n", " ", "e", "r", "r", "o", "r">>)
  ELSE LET found == {i \in DOMAIN pkgs :
                       pkgs[i].name = dep_name /\ pkgs[i].source # <<>>}
       IN IF found = {}
            THEN Err(<<"C", "o", "u", "l", "d", " ", "n", "o", "t", " ", "f", "i", "n",
                "d", " ", "d", "e", "p", "e", "n", "d", "e", "n", "c", "y", " ", "p",
                "a", "c", "k", "a", "g", "e", " ">> \o dep_name)
          ELSE Ok(parent(pkgs[SetMin(found)].manifest_path))

\* find_dependency_path of codegen/layer.rs: the same search, for the name
\* opendal-layer-{layer_name}.
layer_find_dependency_path(cargo_toml, pkgs, name) ==
  find_dependency_path(cargo_toml, pkgs, <<"o", "p", "e", "n", "d", "a", "l", "-", "l",
      "a", "y", "e", "r", "-">> \o name)

\* find_dependency_path of the service generator: the same search, for the
\* name opendal-service-{service_name}.
service_find_dependency_path(cargo_toml, pkgs, name) ==
  find_dependency_path(cargo_toml, pkgs, <<"o", "p", "e", "n", "d", "a", "l", "-", "s",
      "e", "r", "v", "i", "c", "e", "-">> \o name)

registry == <<<<"r", "e", "g", "i", "s", "t", "r", "y", "+", "h", "t", "t", "p", "s",
    ":", "/", "/", "g", "i", "t", "h", "u", "b", ".", "c", "o", "m", "/", "r", "u", "s",
    "t", "-", "l", "a", "n", "g", "/", "c", "r", "a", "t", "e", "s", ".", "i", "o", "-",
    "i", "n", "d", "e", "x">>>>

git == <<<<"g", "i", "t", "+", "h", "t", "t", "p", "s", ":", "/", "/", "g", "i", "t",
    "h", "u", "b", ".", "c", "o", "m", "/", "a", "p", "a", "c", "h", "e", "/", "o", "p",
    "e", "n", "d", "a", "l">>>>

\* The packages cargo metadata may list: external ones, members of the
\* workspace with the name of a dependency, and an unrelated one.
PackagePool ==
  { Package(<<"o", "p", "e", "n", "d", "a", "l", "-", "l", "a", "y", "e", "r", "-", "r",
      "e", "t", "r", "y">>, registry, <<"/", "r", "e", "g", "i", "s", "t", "r", "y",
      "/", "o", "p", "e", "n", "d", "a", "l", "-", "l", "a", "y", "e", "r", "-", "r",
      "e", "t", "r", "y", "/", "C", "a", "r", "g", "o", ".", "t", "o", "m", "l">>),
    Package(<<"o", "p", "e", "n", "d", "a", "l", "-", "l", "a", "y", "e", "r", "-", "r",
        "e", "t", "r", "y">>, <<>>, <<"/", "w", "s", "/", "l", "a", "y", "e", "r", "s",
        "/", "r", "e", "t", "r", "y", "/", "C", "a", "r", "g", "o", ".", "t", "o", "m",
        "l">>),
    Package(<<"o", "p", "e", "n", "d", "a", "l", "-", "l", "a", "y", "e", "r", "-", "r",
        "e", "t", "r", "y">>, git, <<"/", "g", "i", "t", "/", "o", "p", "e", "n", "d",
        "a", "l", "/", "l", "a", "y", "e", "r", "s", "/", "r", "e", "t", "r", "y", "/",
        "C", "a", "r", "g", "o", ".", "t", "o", "m", "l">>),
    Package(<<"o", "p", "e", "n", "d", "a", "l", "-", "s", "e", "r", "v", "i", "c", "e",
        "-", "s", "3">>, registry, <<"/", "r", "e", "g", "i", "s", "t", "r", "y", "/",
        "o", "p", "e", "n", "d", "a", "l", "-", "s", "e", "r", "v", "i", "c", "e", "-",
        "s", "3", "/", "C", "a", "r", "g", "o", ".", "t", "o", "m", "l">>),
    Package(<<"o", "p", "e", "n", "d", "a", "l", "-", "s", "e", "r", "v", "i", "c", "e",
        "-", "s", "3">>, <<>>, <<"/", "w", "s", "/", "s", "e", "r", "v", "i", "c", "e",
        "s", "/", "s", "3", "/", "C", "a", "r", "g", "o", ".", "t", "o", "m", "l">>),
    Package(<<"a", "n", "y", "h", "o", "w">>, registry, <<"/", "r", "e", "g", "i", "s",
        "t", "r", "y", "/", "a", "n", "y", "h", "o", "w", "/", "C", "a", "r", "g", "o",
        ".", "t", "o", "m", "l">>) }

MaxPackages == 2

PackageLists == UNION {[1..n -> PackagePool] : n \in 0..MaxPackages}

\* What a call of the resolver leaves alone.
outside_resolver == <<generate_vars, ty, ct, dr, ly, tr>>

InitResolver ==
  /\ GenerateIdle /\ TablesIdle /\ CtorIdle /\ ResolverIdle /\ DriverIdle
  /\ RuntimeIdle /\ RegistryIdle

\* find_dependency_path of codegen/utils.rs is called, once, with a package
\* name.
ResolveUtils ==
  /\ rs_fn = "none"
  /\ \E cargo_toml \in ManifestStates, pkgs \in PackageLists,
        name \in {<<"o", "p", "e", "n", "d", "a", "l", "-", "l", "a", "y", "e", "r",
            "-", "r", "e", "t", "r", "y">>, <<"o", "p", "e", "n", "d", "a", "l", "-",
            "s", "e", "r", "v", "i", "c", "e", "-", "s", "3">>, <<"o", "p", "e", "n",
            "d", "a", "l", "-", "s", "e", "r", "v", "i", "c", "e", "-", "f", "s">>} :
       /\ rs_manifest' = cargo_toml
       /\ rs_packages' = pkgs
       /\ rs_name' = name
       /\ rs_result' = find_dependency_path(cargo_toml, pkgs, name)
  /\ rs_fn' = "utils"
  /\ UNCHANGED outside_resolver

\* find_dependency_path of codegen/layer.rs is called with a layer name.
ResolveLayer ==
  /\ rs_fn = "none"
  /\ \E cargo_toml \in ManifestStates, pkgs \in PackageLists,
        name \in {<<"r", "e", "t", "r", "y">>, <<"t", "i", "m", "e", "o", "u", "t">>,
            <<"s", "3">>} :
       /\ rs_manifest' = cargo_toml
       /\ rs_packages' = pkgs
       /\ rs_name' = name
       /\ rs_result' = layer_find_dependency_path(cargo_toml, pkgs, name)
  /\ rs_fn' = "layer"
  /\ UNCHANGED outside_resolver

\* find_dependency_path of the service generator is called with a service
\* name.
ResolveService ==
  /\ rs_fn = "none"
  /\ \E cargo_toml \in ManifestStates, pkgs \in PackageLists,
        name \in {<<"s", "3">>, <<"f", "s">>, <<"r", "e", "t", "r", "y">>} :
       /\ rs_manifest' = cargo_toml
       /\ rs_packages' = pkgs
       /\ rs_name' = name
       /\ rs_result' = service_find_dependency_path(cargo_toml, pkgs, name)
  /\ rs_fn' = "service"
  /\ UNCHANGED outside_resolver

NextResolver == ResolveUtils \/ ResolveLayer \/ ResolveService

SpecResolver == InitResolver /\ [][NextResolver]_vars

\* The package name the call looked for.
DepName ==
  IF rs_fn = "layer" THEN <<"o", "p", "e", "n", "d", "a", "l", "-", "l", "a", "y", "e",
      "r", "-">> \o rs_name
  ELSE IF rs_fn = "service" THEN <<"o", "p", "e", "n", "d", "a", "l", "-", "s", "e",
      "r", "v", "i", "c", "e", "-">> \o rs_name
  ELSE rs_name

\* The packages of the call with that name: those from outside, and the
\* members of the workspace.
External ==
  {i \in DOMAIN rs_packages :
     rs_packages[i].name = DepName /\ rs_packages[i].source # <<>>}

Local ==
  {i \in DOMAIN rs_packages :
     rs_packages[i].name = DepName /\ rs_packages[i].source = <<>>}

\* C15: the resolver returns a directory only of an external package with
\* the derived name, the first of them; the directory of a workspace-local
\* package of that name is never returned, wherever it stands in the list.
C15_OnlyExternalPackage ==
  /\ rs_fn # "none" /\ rs_result[1] = "Ok" =>
       /\ External # {}
       /\ rs_result[2] = parent(rs_packages[SetMin(External)].manifest_path)
       /\ \A i \in Local : rs_result[2] # parent(rs_packages[i].manifest_path)
  /\ rs_fn # "none" /\ External = {} => rs_result[1] = "Err"

\* C15 happens: the list holds a workspace-local package of the name before
\* an external one, and the directory of the external one is returned.
C15_Witness ==
  /\ rs_fn = "layer"
  /\ Local # {} /\ External # {}
  /\ SetMin(Local) < SetMin(External)
  /\ rs_result = Ok(<<"/", "r", "e", "g", "i", "s", "t", "r", "y", "/", "o", "p", "e",
      "n", "d", "a", "l", "-", "l", "a", "y", "e", "r", "-", "r", "e", "t", "r", "y">>)

\* The error of a failed call.
NotFound == <<"C", "o", "u", "l", "d", " ", "n", "o", "t", " ", "f", "i", "n", "d", " ",
    "d", "e", "p", "e", "n", "d", "e", "n", "c", "y", " ", "p", "a", "c", "k", "a", "g",
    "e", " ">> \o DepName

\* C16: a manifest that cannot be found or resolved gives one error, no
\* external package of the name gives the error "Could not find dependency
\* package <name>", the two differ, and neither returns a directory.
C16_DistinctErrors ==
  rs_fn # "none" =>
    /\ rs_manifest # "ok" =>
         /\ rs_result[1] = "Err"
         /\ rs_result[2] # NotFound
         /\ ~starts_with(rs_result[2], <<"C", "o", "u", "l", "d", " ", "n", "o", "t",
             " ", "f", "i", "n", "d", " ", "d", "e", "p", "e", "n", "d", "e", "n", "c",
             "y", " ", "p", "a", "c", "k", "a", "g", "e">>)
    /\ rs_manifest = "ok" /\ External = {} => rs_result = Err(NotFound)
    /\ rs_result[1] = "Err" <=> (rs_manifest # "ok" \/ External = {})

\* C16 happens: the manifest resolves, the only package of the name is a
\* member of the workspace, and the call fails with the second error.
C16_Witness ==
  /\ rs_fn = "service"
  /\ rs_manifest = "ok"
  /\ Local # {} /\ External = {}
  /\ rs_result = Err(<<"C", "o", "u", "l", "d", " ", "n", "o", "t", " ", "f", "i", "n",
      "d", " ", "d", "e", "p", "e", "n", "d", "e", "n", "c", "y", " ", "p", "a", "c",
      "k", "a", "g", "e", " ", "o", "p", "e", "n", "d", "a", "l", "-", "s", "e", "r",
      "v", "i", "c", "e", "-", "s", "3">>)

(* ------------------------------ the driver ----------------------------- *)

\* str::replace('-', "_").
replace_dash(name) ==
  [i \in DOMAIN name |-> IF name[i] = "-" THEN "_" ELSE name[i]]

\* A locate step of generate without the fall back to src/lib.rs.
layer_src_path_no_fallback(dep_path, name, present) ==
  LET src_path == dep_path \o <<"/", "s", "r", "c",
      "/">> \o replace_dash(name) \o <<".", "r", "s">>
  IN IF src_path \in present THEN Ok(src_path)
     ELSE Err(<<"S", "o", "u", "r", "c", "e", " ", "f", "i", "l", "e", " ", "n", "o",
         "t", " ", "f", "o", "u", "n", "d", " ", "a", "t", " ">> \o src_path)

\* generate, locate: src/{layer_name}.rs of the dependency when it exists,
\* else src/lib.rs, else the error.
layer_src_path(dep_path, name, present) ==
  LET named == dep_path \o <<"/", "s", "r", "c", "/">> \o replace_dash(name) \o <<".",
      "r", "s">>
      src_path == IF named \in present THEN named ELSE dep_path \o <<"/", "s", "r", "c",
          "/", "l", "i", "b", ".", "r", "s">>
  IN IF src_path \in present THEN Ok(src_path)
     ELSE Err(<<"S", "o", "u", "r", "c", "e", " ", "f", "i", "l", "e", " ", "n", "o",
         "t", " ", "f", "o", "u", "n", "d", " ", "a", "t", " ">> \o src_path)

\* run, locate: src/config.rs of the dependency, else the error.
service_config_path(dep_path, present) ==
  LET config_path == dep_path \o <<"/", "s", "r", "c", "/", "c", "o", "n", "f", "i",
      "g", ".", "r", "s">>
  IN IF config_path \in present THEN Ok(config_path)
     ELSE Err(<<"C", "o", "n", "f", "i", "g", " ", "f", "i", "l", "e", " ", "n", "o",
         "t", " ", "f", "o", "u", "n", "d", " ", "a", "t", " ">> \o config_path)

\* What the files of a dependency hold: declarations the generators accept,
\* text that is no Rust, or among the builders a method named `with_`.
Contents == {"builders", "syntax error", "with_ builder"}

\* parse_layer_def / parse_service_config on a file: the error of the read or
\* of syn, else what was extracted and from where.
extract(path, content) ==
  IF content = "syntax error" THEN Err(<<"c", "a", "n", "n", "o", "t", " ", "p", "a",
      "r", "s", "e">>)
  ELSE Ok([from |-> path, content |-> content])

\* The text generate assembles and the text the template renders: set by the
\* component and by what was extracted.
render(kind, name, extracted) ==
  [kind |-> kind, component |-> name, of |-> extracted]

\* An output path that leaves the service name out.
output_path_fixed(package_path, name) == package_path \o <<"/", "s", "r", "c", "/", "s",
    "e", "r", "v", "i", "c", "e", ".", "r", "s">>

\* run: PathBuf::from(package_path).join(format!("src/{}.rs", service_name)).
output_path(package_path, name) ==
  package_path \o <<"/", "s", "r", "c", "/">> \o name \o <<".", "r", "s">>

\* fs::write: the file holds the contents, whatever it held.
fs_write(files_out, path, contents) ==
  [files_out EXCEPT ![path] = <<contents>>]

\* The text an earlier run left at an output path.
stale ==
  [kind |-> "service", component |-> <<>>,
   of |-> [from |-> <<>>, content |-> "stale"]]

\* The beginning of a text.
cut_short(contents) == [contents EXCEPT !.of.content = "cut short"]

\* An invocation of a generator, with its locals.
Invocation(kind, name, package_path) ==
  [kind |-> kind, name |-> name, package_path |-> package_path, pc |-> "start",
   dep_path |-> <<>>, src_path |-> <<>>, extracted |-> <<>>, output |-> <<>>,
   result |-> <<>>, writes |-> 0]

LayerBacktrace == Invocation("layer", <<"a", "s", "y", "n", "c", "-", "b", "a", "c",
    "k", "t", "r", "a", "c", "e">>, <<"/", "w", "s", "/", "l", "a", "y", "e", "r", "s",
    "/", "a", "s", "y", "n", "c", "-", "b", "a", "c", "k", "t", "r", "a", "c", "e">>)

ServiceS3 == Invocation("service", <<"s", "3">>, <<"/", "w", "s", "/", "s", "e", "r",
    "v", "i", "c", "e", "s", "/", "s", "3">>)

\* A second service generated into the package of the first.
ServiceFs == Invocation("service", <<"f", "s">>, <<"/", "w", "s", "/", "s", "e", "r",
    "v", "i", "c", "e", "s", "/", "s", "3">>)

\* The packages of the workspaces explored: every dependency external, and
\* s3 a member of the workspace.
Workspaces ==
  { <<Package(<<"o", "p", "e", "n", "d", "a", "l", "-", "l", "a", "y", "e", "r", "-",
      "a", "s", "y", "n", "c", "-", "b", "a", "c", "k", "t", "r", "a", "c", "e">>,
      registry,
              <<"/", "r", "e", "g", "i", "s", "t", "r", "y", "/", "o", "p", "e", "n",
                  "d", "a", "l", "-", "l", "a", "y", "e", "r", "-", "a", "s", "y", "n",
                  "c", "-", "b", "a", "c", "k", "t", "r", "a", "c", "e", "/", "C", "a",
                  "r", "g", "o", ".", "t", "o", "m", "l">>),
      Package(<<"o", "p", "e", "n", "d", "a", "l", "-", "s", "e", "r", "v", "i", "c",
          "e", "-", "s", "3">>, registry, <<"/", "r", "e", "g", "i", "s", "t", "r", "y",
          "/", "o", "p", "e", "n", "d", "a", "l", "-", "s", "e", "r", "v", "i", "c",
          "e", "-", "s", "3", "/", "C", "a", "r", "g", "o", ".", "t", "o", "m", "l">>),
      Package(<<"o", "p", "e", "n", "d", "a", "l", "-", "s", "e", "r", "v", "i", "c",
          "e", "-", "f", "s">>, registry, <<"/", "r", "e", "g", "i", "s", "t", "r", "y",
          "/", "o", "p", "e", "n", "d", "a", "l", "-", "s", "e", "r", "v", "i", "c",
          "e", "-", "f", "s", "/", "C", "a", "r", "g", "o", ".", "t", "o", "m",
          "l">>)>>,
    <<Package(<<"o", "p", "e", "n", "d", "a", "l", "-", "s", "e", "r", "v", "i", "c",
        "e", "-", "s", "3">>, <<>>, <<"/", "w", "s", "/", "s", "e", "r", "v", "i", "c",
        "e", "s", "/", "s", "3", "/", "C", "a", "r", "g", "o", ".", "t", "o", "m",
        "l">>),
      Package(<<"o", "p", "e", "n", "d", "a", "l", "-", "s", "e", "r", "v", "i", "c",
          "e", "-", "f", "s">>, registry, <<"/", "r", "e", "g", "i", "s", "t", "r", "y",
          "/", "o", "p", "e", "n", "d", "a", "l", "-", "s", "e", "r", "v", "i", "c",
          "e", "-", "f", "s", "/", "C", "a", "r", "g", "o", ".", "t", "o", "m",
          "l">>)>> }

\* The files a dependency may have under src/.
FileNames == {<<"a", "s", "y", "n", "c", "_", "b", "a", "c", "k", "t", "r", "a", "c",
    "e", ".", "r", "s">>, <<"l", "i", "b", ".", "r", "s">>, <<"c", "o", "n", "f", "i",
    "g", ".", "r", "s">>}

\* The output paths of the invocations.
OutputPaths(invocations) ==
  {output_path(invocations[i].package_path, invocations[i].name) :
     i \in {j \in DOMAIN invocations : invocations[j].kind = "service"}}

\* What a step of the driver leaves alone.
outside_driver == <<generate_vars, ty, ct, rs, ly, tr>>

\* Two invocations in a workspace: its manifest, its packages, the files of
\* the dependencies, all holding the same kind of text, and the output files
\* of an earlier run, if any.
InitDriver ==
  /\ GenerateIdle /\ TablesIdle /\ CtorIdle /\ ResolverIdle
  /\ RuntimeIdle /\ RegistryIdle
  /\ manifest \in ManifestStates
  /\ packages \in Workspaces
  /\ \E names \in SUBSET FileNames, content \in Contents :
       files = [path \in {parent(packages[i].manifest_path) \o <<"/", "s", "r", "c",
           "/">> \o f :
                            i \in DOMAIN packages, f \in names} |-> content]
  /\ runs \in {<<a, b>> : a \in {LayerBacktrace, ServiceS3},
                          b \in {ServiceS3, ServiceFs}}
  /\ \E old \in {<<>>, <<stale>>} : disk = [path \in OutputPaths(runs) |-> old]

\* find_dependency_path()?: the directory of the dependency, or the error.
Resolve ==
  \E i \in DOMAIN runs :
    /\ runs[i].pc = "start"
    /\ LET found == IF runs[i].kind = "layer"
                      THEN layer_find_dependency_path(manifest, packages, runs[i].name)
                    ELSE service_find_dependency_path(manifest, packages, runs[i].name)
       IN runs' = IF found[1] = "Ok"
                    THEN [runs EXCEPT ![i].dep_path = <<found[2]>>,
                                      ![i].pc = "resolved"]
                  ELSE [runs EXCEPT ![i].result = found, ![i].pc = "failed"]
    /\ UNCHANGED <<manifest, packages, files, disk, outside_driver>>

\* The source file is looked for: the path to read, or the error.
Locate ==
  \E i \in DOMAIN runs :
    /\ runs[i].pc = "resolved"
    /\ LET found == IF runs[i].kind = "layer"
                      THEN layer_src_path(runs[i].dep_path[1], runs[i].name,
                                          DOMAIN files)
                    ELSE service_config_path(runs[i].dep_path[1], DOMAIN files)
       IN runs' = IF found[1] = "Ok"
                    THEN [runs EXCEPT ![i].src_path = <<found[2]>>,
                                      ![i].pc = "located"]
                  ELSE [runs EXCEPT ![i].result = found, ![i].pc = "failed"]
    /\ UNCHANGED <<manifest, packages, files, disk, outside_driver>>

\* parse_layer_def()? / parse_service_config()?: what the file declares, or
\* the error.
Extract ==
  \E i \in DOMAIN runs :
    /\ runs[i].pc = "located"
    /\ LET found == extract(runs[i].src_path[1], files[runs[i].src_path[1]])
       IN runs' = IF found[1] = "Ok"
                    THEN [runs EXCEPT ![i].extracted = <<found[2]>>,
                                      ![i].pc = "extracted"]
                  ELSE [runs EXCEPT ![i].result = found, ![i].pc = "failed"]
    /\ UNCHANGED <<manifest, packages, files, disk, outside_driver>>

\* The text is assembled; generate panics in format_ident! on the arg_name of
\* a method named `with_`.
Assemble ==
  \E i \in DOMAIN runs :
    /\ runs[i].pc = "extracted"
    /\ runs' = IF runs[i].kind = "layer"
                    /\ runs[i].extracted[1].content = "with_ builder"
                 THEN [runs EXCEPT ![i].pc = "panicked"]
               ELSE [runs EXCEPT
                       ![i].output = <<render(runs[i].kind, runs[i].name,
                                              runs[i].extracted[1])>>,
                       ![i].pc = "assembled"]
    /\ UNCHANGED <<manifest, packages, files, disk, outside_driver>>

\* generate returns the text.
Return ==
  \E i \in DOMAIN runs :
    /\ runs[i].pc = "assembled"
    /\ runs[i].kind = "layer"
    /\ runs' = [runs EXCEPT ![i].result = Ok(runs[i].output[1]), ![i].pc = "done"]
    /\ UNCHANGED <<manifest, packages, files, disk, outside_driver>>

\* A run that creates its output file before any stage has run.
WriteBeforeResolve ==
  \E i \in DOMAIN runs :
    /\ runs[i].pc = "start"
    /\ runs[i].kind = "service"
    /\ disk' = [disk EXCEPT ![output_path(runs[i].package_path, runs[i].name)] =
                              <<cut_short(stale)>>]
    /\ UNCHANGED <<runs, manifest, packages, files, outside_driver>>

\* run writes the text with fs::write()?: the file holds it, or the write
\* fails and the file is as it was or cut short.
Write ==
  \E i \in DOMAIN runs :
    /\ runs[i].pc = "assembled"
    /\ runs[i].kind = "service"
    /\ LET path == output_path(runs[i].package_path, runs[i].name)
       IN \/ /\ disk' = fs_write(disk, path, runs[i].output[1])
             /\ runs' = [runs EXCEPT ![i].result = Ok(<<>>), ![i].pc = "done",
                                     ![i].writes = @ + 1]
          \/ /\ disk' \in {disk,
              [disk EXCEPT ![path] = <<cut_short(runs[i].output[1])>>]}
             /\ runs' = [runs EXCEPT ![i].result = Err(<<"f", "a", "i", "l", "e", "d",
                 " ", "t", "o", " ", "w", "r", "i", "t", "e">>),
                                     ![i].pc = "failed", ![i].writes = @ + 1]
    /\ UNCHANGED <<manifest, packages, files, outside_driver>>

NextDriver == Resolve \/ Locate \/ Extract \/ Assemble \/ Return \/ Write

SpecDriver == InitDriver /\ [][NextDriver]_vars

\* The run of index i has looked for its source file.
Looked(i) == runs[i].dep_path # <<>> /\ runs[i].pc # "resolved"

\* The files the runs may read, in the directory of the dependency.
ComponentFile(i) ==
  runs[i].dep_path[1] \o <<"/", "s", "r", "c",
      "/">> \o replace_dash(runs[i].name) \o <<".", "r", "s">>

RootFile(i) == runs[i].dep_path[1] \o <<"/", "s", "r", "c", "/", "l", "i", "b", ".",
    "r", "s">>

ConfigFile(i) == runs[i].dep_path[1] \o <<"/", "s", "r", "c", "/", "c", "o", "n", "f",
    "i", "g", ".", "r", "s">>

Exists(path) == path \in DOMAIN files

\* The run failed to find a file, and has read and extracted nothing.
AbortedInLocate(i) ==
  /\ runs[i].pc = "failed"
  /\ runs[i].result[1] = "Err"
  /\ runs[i].src_path = <<>>
  /\ runs[i].extracted = <<>>
  /\ runs[i].output = <<>>

\* What was extracted was read from the file located.
ReadsLocated(i) ==
  runs[i].extracted # <<>> => runs[i].extracted[1].from = runs[i].src_path[1]

\* The component-named file, else src/lib.rs, else a fatal error.
FallbackRule(i) ==
  /\ Exists(ComponentFile(i)) => runs[i].src_path = <<ComponentFile(i)>>
  /\ ~Exists(ComponentFile(i)) /\ Exists(RootFile(i)) =>
       runs[i].src_path = <<RootFile(i)>>
  /\ ~Exists(ComponentFile(i)) /\ ~Exists(RootFile(i)) => AbortedInLocate(i)
  /\ ReadsLocated(i)

\* src/config.rs, else a fatal error.
ConfigRule(i) ==
  /\ Exists(ConfigFile(i)) => runs[i].src_path = <<ConfigFile(i)>>
  /\ ~Exists(ConfigFile(i)) =>
       /\ AbortedInLocate(i)
       /\ runs[i].result[2] = <<"C", "o", "n", "f", "i", "g", " ", "f", "i", "l", "e",
           " ", "n", "o", "t", " ", "f", "o", "u", "n", "d", " ", "a", "t",
           " ">> \o ConfigFile(i)
  /\ ReadsLocated(i)

\* C17 as stated: both pipelines read the component-named file when it
\* exists, else src/lib.rs, and abort when neither exists.
C17_Original == \A i \in DOMAIN runs : Looked(i) => FallbackRule(i)

\* C17: the layer pipeline reads the component-named file when it exists,
\* else src/lib.rs, and aborts without extracting when neither exists; the
\* service pipeline reads src/config.rs and aborts without extracting when
\* it does not exist.
C17_FallbackInLayerPipeline ==
  \A i \in DOMAIN runs :
    Looked(i) =>
      IF runs[i].kind = "layer" THEN FallbackRule(i) ELSE ConfigRule(i)

\* C17 happens: without a component-named file, the layer run has read
\* src/lib.rs, and the service run, without src/config.rs, has aborted.
C17_Witness ==
  /\ runs[1].kind = "layer" /\ runs[2].kind = "service"
  /\ Looked(1) /\ Looked(2)
  /\ ~Exists(ComponentFile(1))
  /\ runs[1].extracted # <<>>
  /\ runs[1].extracted[1].from = RootFile(1)
  /\ Exists(RootFile(2)) /\ ~Exists(ConfigFile(2))
  /\ AbortedInLocate(2)

\* The output path of the run of index i.
OutputPath(i) == output_path(runs[i].package_path, runs[i].name)

\* The stages of a run have succeeded in order: a stage has a result only
\* when the stage before has one.
StagesInOrder(i) ==
  /\ runs[i].src_path # <<>> => runs[i].dep_path # <<>>
  /\ runs[i].extracted # <<>> => runs[i].src_path # <<>>
  /\ runs[i].output # <<>> => runs[i].extracted # <<>>
  /\ runs[i].writes > 0 => runs[i].output # <<>>

\* A stage of the run has failed.
StageFailed(i) ==
  runs[i].pc \in {"failed", "panicked"} /\ runs[i].output = <<>>

\* This step is the write of the run of index i.
WritesNow(i) ==
  /\ runs[i].pc = "assembled"
  /\ runs[i].kind = "service"
  /\ StagesInOrder(i)
  /\ runs'[i].writes = runs[i].writes + 1

alone(r) ==
  LET resolved == IF r.kind = "layer"
                    THEN layer_find_dependency_path(manifest, packages, r.name)
                  ELSE service_find_dependency_path(manifest, packages, r.name)
      located == IF r.kind = "layer"
                   THEN layer_src_path(resolved[2], r.name, DOMAIN files)
                 ELSE service_config_path(resolved[2], DOMAIN files)
      extracted == extract(located[2], files[located[2]])
  IN IF resolved[1] = "Err" THEN [result |-> resolved, output |-> <<>>]
     ELSE IF located[1] = "Err" THEN [result |-> located, output |-> <<>>]
     ELSE IF extracted[1] = "Err" THEN [result |-> extracted, output |-> <<>>]
     ELSE IF r.kind = "layer" /\ extracted[2].content = "with_ builder"
       THEN [result |-> <<>>, output |-> <<>>]
     ELSE [result |-> Ok(<<>>), output |-> <<render(r.kind, r.name, extracted[2])>>]

C20_ExtractionNeverFails ==
  [][pc = "idle" =>
       /\ pc' = "parsed"
       /\ Len(methods') <= Len(src)
       /\ \A k \in DOMAIN methods' :
            \E j \in DOMAIN src : methods'[k].name = src[j].name]_vars

\* C20 happens: a source with a method whose parameter is a tuple pattern of
\* a tuple type and a method of no builder shape has been parsed; the first
\* is described as arg: unknown, the second is skipped.
C20_Witness ==
  /\ pc = "parsed"
  /\ Len(src) = 2
  /\ Len(methods) = 1
  /\ methods[1].name = <<"w", "i", "t", "h", "_", "r", "a", "n", "g", "e">>
  /\ methods[1].arg_name = <<"a", "r", "g">>
  /\ methods[1].arg_type = <<"u", "n", "k", "n", "o", "w", "n">>

(* -------------------- claims on the generated wrapper ------------------- *)

\* The descriptor has a type of the table: it outlives the type mapping.
Survives(d) == d.arg_type \in StrTableNames

\* The descriptors the loop has let through so far, in order.
Survivors == SelectSeq(SubSeq(methods, 1, idx), Survives)

\* C21: when no method of the target type outlives extraction and type
\* mapping, also without any impl block of the type, generate does not
\* fail, and ends with a constructor that takes no arguments and returns
\* the default-constructed base value.
C21_NoSurvivorGivesNoArgWrapper ==
  (Extracted /\ \A k \in DOMAIN methods : ~Survives(methods[k])) =>
    /\ pc # "panicked"
    /\ pc = "done" =>
         /\ Generated.args = <<>>
         /\ Generated.signature = <<>>
         /\ Generated.body = <<>>
         /\ Generated.base.call = "default"
         /\ Generated.base.args = <<>>

\* C21 happens: the source declares methods, one of an unsupported type and
\* one of another type, none outlives, and generate has returned the
\* wrapper without arguments.
C21_Witness ==
  /\ pc = "done"
  /\ Len(src) = 2
  /\ src[1].name = <<"w", "i", "t", "h", "_", "n", "o", "t", "i", "f", "y">>
  /\ src[2].name = <<"w", "i", "t", "h", "_", "l", "e", "v", "e", "l">>
  /\ Generated.args = <<>>
  /\ Generated.base.call = "default"

\* The labels of the documentation.
TypeLabels == {<<"b", "o", "o", "l">>, <<"s", "t", "r">>, <<"i", "n", "t">>, <<"f", "l",
    "o", "a", "t">>, <<"d", "a", "t", "e", "t", "i", "m", "e", ".", "t", "i", "m", "e",
    "d", "e", "l", "t", "a">>}

\* C22: the documentation entry of a parameter is its name, ` : `, the type
\* label, `, optional` unless the parameter is a bool, a newline, four spaces
\* and the doc text.
C22_DocEntryForm ==
  pc = "done" =>
    \A i \in DOMAIN doc_params :
      \E label \in TypeLabels :
        starts_with(doc_params[i],
                    Generated.args[i].name \o <<" ", ":", " ">> \o label
                      \o (IF Generated.args[i].ty = <<"b", "o", "o", "l">> THEN <<>>
                          ELSE <<",", " ", "o", "p", "t", "i", "o", "n", "a", "l">>)
                      \o <<"\n", " ", " ", " ", " ">>)

\* The doc text of the entry of index i: what follows the first line and
\* the four spaces.
DocText(i) ==
  LET entry == doc_params[i]
      nl == SetMin({k \in DOMAIN entry : entry[k] = "\n"})
  IN SubSeq(entry, nl + 5, Len(entry))

\* The descriptor the parameter of index i was made of.
DescriptorOf(i) ==
  methods[CHOOSE k \in DOMAIN methods : methods[k].name = new_assignments[i].method]

\* C23: blank documentation lines are dropped, a method without a
\* documentation line that is not blank gets "See `<method_name>`.", and
\* the doc text of a parameter is never empty.
C23_DocTextNeverEmpty ==
  pc = "done" =>
    \A i \in DOMAIN doc_params :
      LET d == DescriptorOf(i)
      IN /\ DocText(i) # <<>>
         /\ (\A k \in DOMAIN d.docs : trim(d.docs[k]) = <<>>) =>
              DocText(i) = <<"S", "e", "e", " ", "grave">> \o d.name \o <<"grave", ".">>

\* The text holds the part at the position.
At(text, i, part) ==
  i + Len(part) - 1 <= Len(text) /\ SubSeq(text, i, i + Len(part) - 1) = part

ParametersHead == <<"\n", "\n", "P", "a", "r", "a", "m", "e", "t", "e", "r", "s", "\n",
    "-", "-", "-", "-", "-", "-", "-", "-", "-", "-", "\n">>

ReturnsHead == <<"\n", "\n", "R", "e", "t", "u", "r", "n", "s", "\n", "-", "-", "-",
    "-", "-", "-", "-", "\n">>

\* The first lines of the entries of the Parameters section: the lines
\* between the two heads that are not indented.
EntryLines(text) ==
  LET from == SetMin({i \in DOMAIN text : At(text, i, ParametersHead)})
               + Len(ParametersHead)
      to == SetMax({i \in DOMAIN text : At(text, i, ReturnsHead)})
  IN {i \in from..(to - 1) :
        /\ i = from \/ text[i - 1] = "\n"
        /\ text[i] # " "}

\* C24: the docstring has a Parameters section exactly when a descriptor
\* outlived; without one it is "Create a new <ComponentName>." and the
\* Returns section; the entries of the Parameters section are as many as
\* the parameters of the constructor.
C24_ParametersSectionIffParameters ==
  pc = "done" =>
    /\ (\E i \in DOMAIN Generated.doc : At(Generated.doc, i, ParametersHead))
         <=> Survivors # <<>>
    /\ Survivors = <<>> =>
         Generated.doc = <<"C", "r", "e", "a", "t", "e", " ", "a", " ", "n", "e", "w",
             " ", "R", "e", "t", "r", "y", "L", "a", "y", "e", "r", ".", "\n", "\n",
             "R", "e", "t", "u", "r", "n", "s", "\n", "-", "-", "-", "-", "-", "-", "-",
             "\n", "R", "e", "t", "r", "y", "L", "a", "y", "e", "r">>
    /\ Survivors # <<>> =>
         Cardinality(EntryLines(Generated.doc)) = Len(Generated.args)

\* C24 happens: two descriptors outlived, one with documentation lines around
\* a blank one, and the Parameters section has two entries.
C24_Witness ==
  /\ pc = "done"
  /\ Len(Generated.args) = 2
  /\ Generated.args[1].name = <<"j", "i", "t", "t", "e", "r">>
  /\ Generated.args[2].name = <<"m", "i", "n", "_", "d", "e", "l", "a", "y">>
  /\ Cardinality(EntryLines(Generated.doc)) = 2

\* C27: the parameter names of the generated constructor are pairwise
\* distinct, also for a toggle with_x and a setter of a parameter x.
C27_ParameterNamesDistinct ==
  pc = "done" =>
    \A i, j \in DOMAIN Generated.args :
      i # j => Generated.args[i].name # Generated.args[j].name

\* C28: every descriptor has an argument_name that is an identifier, and
\* the assembly of the descriptors of a source completes.
C28_DescriptorsAssemble ==
  Extracted =>
    /\ \A k \in DOMAIN methods :
         /\ methods[k].arg_name # <<>>
         /\ is_ident(methods[k].arg_name)
    /\ pc # "panicked"

\* C29: at every turn of the loop and in the result, the parameter
\* declarations, the signature defaults, the documentation entries and the
\* builder calls are as many, stand at each position for the same method,
\* and are in the order of the sorted descriptors, which is the order the
\* builder calls are applied in.
C29_VectorsAligned ==
  pc \in {"loop", "done"} =>
    /\ Len(new_args) = Len(Survivors)
    /\ Len(signature_args) = Len(Survivors)
    /\ Len(doc_params) = Len(Survivors)
    /\ Len(new_assignments) = Len(Survivors)
    /\ \A i \in DOMAIN Survivors :
         /\ new_args[i].name = Survivors[i].arg_name
         /\ signature_args[i].name = Survivors[i].arg_name
         /\ starts_with(doc_params[i], Survivors[i].arg_name \o <<" ", ":", " ">>)
         /\ new_assignments[i].name = Survivors[i].arg_name
         /\ new_assignments[i].method = Survivors[i].name
    /\ \A i, j \in DOMAIN new_assignments :
         i < j => StrCmp(new_assignments[i].name, new_assignments[j].name) <= 0
    /\ pc = "done" =>
         /\ Generated.args = new_args
         /\ Generated.signature = signature_args
         /\ Generated.body = new_assignments

\* C29 happens: the loop has passed a skipped method and a supported one,
\* and each vector holds the one entry of the supported method.
C29_Witness ==
  /\ pc = "loop"
  /\ idx = 2
  /\ Len(stderr) = 1
  /\ Len(new_args) = 1
  /\ Len(doc_params) = 1
  /\ new_assignments[1].method = <<"w", "i", "t", "h", "_", "m", "a", "x", "_", "t",
      "i", "m", "e", "s">>

\* C30: the type match of the layer generator and get_type_info_from_str
\* agree on every type name: the verdict, the target type, the default, the
\* boolean flag and the documentation label, also for Duration.
C30_TablesAgree ==
  ty_table = "layer" =>
    LET shared == get_type_info_from_str(ty_query.name)
    IN /\ Answer.supported <=> shared.py_type_doc # <<>>
       /\ Answer.py_type = shared.rust_type
       /\ Answer.default_val = shared.default_val
       /\ Answer.is_bool = shared.is_bool
       /\ Answer.py_type_doc = shared.py_type_doc

\* ---------------------------------------------------------------------
\* The runtime layer (layers.rs): every operation of the accessor and of
\* the readers, writers, listers and deleters it hands out is a
\* RuntimeFuture, whose poll enters the captured runtime, polls the inner
\* future, and leaves the runtime when the guard goes out of scope.
\* ---------------------------------------------------------------------

\* How many times the inner future of one operation may answer Pending.
MaxPolls == 2

\* The runtime the layer captured when it was built (the service's own).
handle == "service"

\* The threads that may drive a future.
Threads == {1, 2}

\* The runtime a thread is in outside any poll: the first is a plain
\* thread, the second a worker of the core's runtime.
ambient(t) == IF t = 1 THEN "none" ELSE "core"

\* The operations of RuntimeAccessor.
AccessOps ==
  {"read", "write", "list", "delete", "presign", "stat", "create_dir",
   "copy", "rename"}

\* The RuntimeWrapper an operation of the accessor answers with.
wrapper_of(op) ==
  CASE op = "read" -> "Reader"
    [] op = "write" -> "Writer"
    [] op = "list" -> "Lister"
    [] op = "delete" -> "Deleter"
    [] OTHER -> "none"

\* The operations of a RuntimeWrapper, by what it wraps.
WrapperOps(kind) ==
  CASE kind = "Reader" -> {"read"}
    [] kind = "Writer" -> {"write", "close", "abort"}
    [] kind = "Lister" -> {"next"}
    [] kind = "Deleter" -> {"delete", "close"}
    [] OTHER -> {}

\* What the caller can start: any operation of the accessor, and the
\* operations of the wrapper it holds.
Startable(held) ==
  {<<"accessor", op>> : op \in AccessOps}
    \cup {<<held, op>> : op \in WrapperOps(held)}

\* let _ = handle.enter(): the guard is dropped at once, the thread stays
\* in the runtime it was in.
enter_and_drop(current, h) == [current |-> current, guard |-> <<current>>]

\* handle.enter(): the thread is in the runtime of the handle, and the
\* guard remembers the runtime to go back to.
enter(current, h) == [current |-> h, guard |-> <<current>>]

\* No operation in flight, the caller holds no wrapper.
NoFuture ==
  [target |-> "accessor", op |-> "none", state |-> "none", polls |-> 0,
   seen |-> {}, result |-> "none", held |-> "none"]

\* A thread outside poll.
OutOfPoll(t) ==
  [current |-> ambient(t), guard |-> <<>>, pc |-> "out", ret |-> "none"]

outside_runtime == <<generate_vars, ty, ct, rs, dr, tr>>

InitRuntime ==
  /\ GenerateIdle /\ TablesIdle /\ CtorIdle /\ ResolverIdle /\ DriverIdle
  /\ RegistryIdle
  /\ future = NoFuture
  /\ threads = [t \in Threads |-> OutOfPoll(t)]

\* An operation is called: the inner future is made and put in a
\* RuntimeFuture with a clone of the handle.
Call ==
  /\ future.state \in {"none", "ready"}
  /\ \E c \in Startable(future.held) :
       future' = [future EXCEPT !.target = c[1], !.op = c[2],
                                !.state = "created", !.polls = 0,
                                !.seen = {}, !.result = "none"]
  /\ UNCHANGED <<threads, outside_runtime>>

\* poll, first statement: some thread polls the future and enters the
\* runtime of the handle.
PollEnter ==
  /\ future.state \in {"created", "pending"}
  /\ \E t \in Threads :
       /\ threads[t].pc = "out"
       /\ LET e == enter(threads[t].current, handle)
          IN threads' = [threads EXCEPT ![t].current = e.current,
                                        ![t].guard = e.guard,
                                        ![t].pc = "entered"]
  /\ future' = [future EXCEPT !.state = "polling"]
  /\ UNCHANGED outside_runtime

\* poll, second statement: the inner future is polled; it finds the
\* runtime the thread is in, and answers Pending or Ready.
PollInner ==
  /\ \E t \in Threads :
       /\ threads[t].pc = "entered"
       /\ \E r \in {"Pending", "Ok", "Err"} :
            /\ r = "Pending" => future.polls < MaxPolls
            /\ threads' = [threads EXCEPT ![t].pc = "polled", ![t].ret = r]
       /\ future' = [future EXCEPT !.seen = @ \cup {threads[t].current},
                                   !.polls = IF @ < MaxPolls THEN @ + 1
                                             ELSE @]
  /\ UNCHANGED outside_runtime

\* poll returns: the guard is dropped and the thread is back in the
\* runtime it was in; a successful read, write, list or delete hands the
\* caller a RuntimeWrapper.
PollExit ==
  /\ \E t \in Threads :
       /\ threads[t].pc = "polled"
       /\ threads' = [threads EXCEPT ![t].current = threads[t].guard[1],
                                     ![t].guard = <<>>,
                                     ![t].pc = "out",
                                     ![t].ret = "none"]
       /\ LET r == threads[t].ret
          IN future' =
               IF r = "Pending"
               THEN [future EXCEPT !.state = "pending"]
               ELSE [future EXCEPT
                       !.state = "ready",
                       !.result = r,
                       !.held = IF r = "Ok" /\ future.target = "accessor"
                                     /\ wrapper_of(future.op) # "none"
                                THEN wrapper_of(future.op)
                                ELSE @]
  /\ UNCHANGED outside_runtime

NextRuntime ==
  \/ Call
  \/ PollEnter
  \/ PollInner
  \/ PollExit

SpecRuntime == InitRuntime /\ [][NextRuntime]_vars

\* C25: for every operation wrapped by the runtime layer, each poll of
\* the inner future happens while the runtime of the captured handle is
\* entered, and the runtime is left when that poll returns, Ready or
\* Pending: the inner future is never polled outside it, and it is never
\* held between polls.
C25_PolledInsideContextOnly ==
  /\ future.seen \subseteq {handle}
  /\ \A t \in Threads :
       /\ threads[t].pc = "entered" => threads[t].current = handle
       /\ threads[t].pc = "out" =>
            /\ threads[t].current = ambient(t)
            /\ threads[t].guard = <<>>
  /\ future.state # "polling" => \A t \in Threads : threads[t].pc = "out"

\* A write of a Writer was polled once, answered Pending, and waits for
\* its next poll with both threads back in their own runtime.
C25_Witness ==
  /\ future.target = "Writer"
  /\ future.op = "write"
  /\ future.state = "pending"
  /\ future.polls = 1
  /\ future.seen = {handle}
  /\ \A t \in Threads : threads[t].current = ambient(t)

\* ---------------------------------------------------------------------
\* The shared type registry (type_registry.rs): a OnceLock that
\* initialize_shared_types fills with two Python objects.
\* ---------------------------------------------------------------------

\* How many calls of initialize_shared_types are made, in any order and
\* overlap.
MaxCallers == 3

AlreadyInitialized == "Shared type registry already initialized"

\* The error of a failed Py::new.
PyNewFailed == "Py::new failed"

\* The Python object a caller makes of a class.
py_new(c, class) == [by |-> c, class |-> class]

\* A cell whose set always stores the value.
once_lock_set_overwriting(cell, value) ==
  [cell |-> <<value>>, result |-> "Ok"]

\* OnceLock::set: stores the value if the cell is empty, else leaves the
\* cell alone and hands the value back.
once_lock_set(cell, value) ==
  IF cell = <<>>
  THEN [cell |-> <<value>>, result |-> "Ok"]
  ELSE [cell |-> cell, result |-> "Err"]

is_initialized == SHARED_REGISTRY # <<>>

\* A caller that has not called yet. `late` records whether the registry
\* was initialized when the call began.
NotCalled ==
  [pc |-> "idle", late |-> FALSE, py_operator |-> <<>>,
   py_async_operator |-> <<>>, ret |-> <<>>]

outside_registry == <<generate_vars, ty, ct, rs, dr, ly>>

InitRegistry ==
  /\ GenerateIdle /\ TablesIdle /\ CtorIdle /\ ResolverIdle /\ DriverIdle
  /\ RuntimeIdle
  /\ SHARED_REGISTRY = <<>>
  /\ callers = [c \in 1..MaxCallers |-> NotCalled]

\* initialize_shared_types is called.
Begin ==
  /\ \E c \in DOMAIN callers :
       /\ callers[c].pc = "idle"
       /\ callers' = [callers EXCEPT ![c].pc = "py_operator",
                                     ![c].late = is_initialized]
  /\ UNCHANGED <<SHARED_REGISTRY, outside_registry>>

\* Py::new(py, PyOperator::new_empty())?
NewOperator ==
  /\ \E c \in DOMAIN callers :
       /\ callers[c].pc = "py_operator"
       /\ \/ callers' = [callers EXCEPT
                           ![c].pc = "py_async_operator",
                           ![c].py_operator = <<py_new(c, "PyOperator")>>]
          \/ callers' = [callers EXCEPT ![c].pc = "returned",
                                        ![c].ret = Err(PyNewFailed)]
  /\ UNCHANGED <<SHARED_REGISTRY, outside_registry>>

\* Py::new(py, PyAsyncOperator::new_empty())?
NewAsyncOperator ==
  /\ \E c \in DOMAIN callers :
       /\ callers[c].pc = "py_async_operator"
       /\ \/ callers' = [callers EXCEPT
                           ![c].pc = "set",
                           ![c].py_async_operator =
                             <<py_new(c, "PyAsyncOperator")>>]
          \/ callers' = [callers EXCEPT ![c].pc = "returned",
                                        ![c].ret = Err(PyNewFailed)]
  /\ UNCHANGED <<SHARED_REGISTRY, outside_registry>>

\* SHARED_REGISTRY.set(registry).map_err(..)?; Ok(())
Set ==
  /\ \E c \in DOMAIN callers :
       /\ callers[c].pc = "set"
       /\ LET built ==
                [py_operator |-> callers[c].py_operator[1],
                 py_async_operator |-> callers[c].py_async_operator[1]]
              s == once_lock_set(SHARED_REGISTRY, built)
          IN /\ SHARED_REGISTRY' = s.cell
             /\ callers' = [callers EXCEPT
                              ![c].pc = "returned",
                              ![c].ret = IF s.result = "Ok"
                                         THEN Ok("unit")
                                         ELSE Err(AlreadyInitialized)]
  /\ UNCHANGED outside_registry

NextRegistry ==
  \/ Begin
  \/ NewOperator
  \/ NewAsyncOperator
  \/ Set

SpecRegistry == InitRegistry /\ [][NextRegistry]_vars

\* The calls that have returned Ok.
Succeeded == {c \in DOMAIN callers : callers[c].ret = Ok("unit")}

\* is_initialized is false until the first successful call and true
\* ever after, at most one call succeeds, and the stored entries never
\* change.
InitializedOnce ==
  /\ []((is_initialized <=> Succeeded # {}) /\ Cardinality(Succeeded) <= 1)
  /\ [][is_initialized =>
          SHARED_REGISTRY' = SHARED_REGISTRY]_vars

\* C26 as stated: the registry is initialized at most once, and every
\* call made after the first successful one returns the error "Shared
\* type registry already initialized" and leaves the entries unchanged.
C26_Original ==
  /\ InitializedOnce
  /\ [](\A c \in DOMAIN callers :
          callers[c].late /\ callers[c].pc = "returned" =>
            callers[c].ret = Err(AlreadyInitialized))

\* C26: the registry is initialized at most once: is_initialized is
\* false until the first successful initialize_shared_types and true in
\* every later state; every later call fails and leaves the stored
\* entries unchanged, with the error "Shared type registry already
\* initialized" if it gets to store its registry, else with the error of
\* the Py::new that failed.
C26_InitializedOnce ==
  /\ InitializedOnce
  /\ [](\A c \in DOMAIN callers :
          /\ callers[c].late /\ callers[c].pc = "returned" =>
               callers[c].ret \in {Err(AlreadyInitialized), Err(PyNewFailed)}
          /\ callers[c].late /\ callers[c].pc = "returned"
               /\ callers[c].py_async_operator # <<>> =>
               callers[c].ret = Err(AlreadyInitialized))

\* The first call stored its objects; a second call, made afterwards,
\* got to set and was refused; a third, made afterwards, failed in
\* Py::new; the entries are those of the first call.
C26_Witness ==
  /\ SHARED_REGISTRY = <<[py_operator |-> py_new(1, "PyOperator"),
                          py_async_operator |-> py_new(1, "PyAsyncOperator")]>>
  /\ callers[1].ret = Ok("unit")
  /\ callers[2].late
  /\ callers[2].ret = Err(AlreadyInitialized)
  /\ callers[3].late
  /\ callers[3].ret = Err(PyNewFailed)

====
